---- MODULE Spec2Model ----
(***************************************************************************)
(* Model of the DOM views of the reader: DOCXView (src/src/docx/          *)
(* docx-view.js), SnapshotView and NotebookView (src/src/dom/notebook/    *)
(* notebook-view.ts).                                                      *)
(*                                                                         *)
(* Part 1, selectors: toSelector / toDisplayedRange of the three views    *)
(* over a small document.  The document is a sequence of tokens (element  *)
(* open/close, text node open/close, one token per character); a DOM      *)
(* boundary point (container, offset) is a gap between two tokens, and a  *)
(* Range is a pair of gaps.                                                *)
(*                                                                         *)
(* Part 2, find: setFindState / findNext / findPrevious of the three      *)
(* views driving DefaultFindProcessor instances whose run() completes     *)
(* asynchronously.                                                         *)
(*                                                                         *)
(* Part 3, sort indexes: the fixed-width strings the views order           *)
(* annotations by.                                                         *)
(*                                                                         *)
(* Part 4, focus mode: SnapshotView.setFocusModeEnabled and the list of    *)
(* hidden annotations it reports.                                          *)
(*                                                                         *)
(* Part 5, freeform annotations: the pointer handlers of SnapshotView and  *)
(* DOCXView that create text, image and ink annotations.                   *)
(*                                                                         *)
(* Part 6, rendering and reload: DOCXView._renderAnnotations with          *)
(* _createRangeFromPositionData, and SnapshotView.setAnnotations.          *)
(*                                                                         *)
(* Part 7, notebook cells: the keyboard, click and focus listeners of      *)
(* NotebookView and the cell operations they call.                         *)
(*                                                                         *)
(* Part 8, running cells: NotebookView._executeCell, the Run button and    *)
(* the run shortcuts.                                                      *)
(***************************************************************************)
EXTENDS Integers, Sequences, FiniteSets, TLC

VARIABLES
    view,           \* which view class this instance is: "docx", "snapshot", "notebook"
    doc,            \* the iframe document: a sequence of tokens
    focusEnabled,   \* SnapshotView._focusMode.enabled
    range,          \* the live Range handed to toSelector (NullRange: none)
    selector,       \* the Selector produced by toSelector or read from storage
    outcome,        \* what the last toDisplayedRange call did
    pc,             \* where `selector` stands: "range" (toSelector not yet called),
                    \* "selected" (made by toSelector), "loaded" (read from storage)
    edits,          \* number of document mutations so far
    findState,      \* view._findState: the FindState of the last setFindState call
    find,           \* view._find: the current processor (index into procs), 0 for null
    procs,          \* every DefaultFindProcessor created so far, in creation order
    deliveries,     \* the calls made to options.onSetFindState
    searchContext,  \* the search context cached on the view (NoContext: none yet)
    annotations,    \* view._annotations: the annotations given to the view
    hidden,         \* the last call made to options.onSetHiddenAnnotations
    reloaded,       \* the last setAnnotations call: each annotation as it was given
                    \* and as the call left it
    tool,           \* view._tool: the active tool (type and size)
    pointerDownPosition,  \* view._pointerDownPosition (NoPoint: null)
    annotationAction,     \* view._annotationAction (NoAction: null)
    previewAnnotation,    \* view._previewAnnotation (NoAnnotation: null)
    added,          \* the annotations handed to options.onAddAnnotation, in order
    primaryPointer, \* the primary pointer: "up", or, between its pointerdown and its
                    \* pointerup, "down" (on free space) or "downOnAnnotation"
    sortInput,      \* the two numbers a sort index is asked for, and what they are
    sortOutput,     \* the two sort indexes produced (<<>>: not yet)
    docxAnnotations,           \* DOCXView._annotations, each with its id
    placeholders,              \* the placeholder elements appended to the body that
                               \* are attached, in document order
    tempAnnotationElements,    \* DOCXView._tempAnnotationElements
    displayedAnnotationCache,  \* DOCXView._displayedAnnotationCache, by annotation id
    displayedAnnotations,      \* what the last _renderAnnotations gave to the overlay
    notebookCells,    \* NotebookView._notebook.cells: id and cell_type of each cell
    cellStates,       \* the keys of NotebookView._cellStates
    cellElements,     \* the .notebook-cell elements in document order, each with
                      \* its data-cell-id, its type and its mode class
    activeCellId,     \* NotebookView._activeCellId (NoCell: null)
    cellMode,         \* NotebookView._cellMode ("null": null)
    deleteKeyCount,   \* NotebookView._deleteKeyCount
    resetTimers,      \* the pending reset timers: the ticks each has left
    lastKey,          \* the last keydown event of the command mode branch, what
                      \* it did and how many ticks ago it was
    source,           \* CellState.source of each entry of _cellStates, by cell id
    executionState,   \* CellState.executionState, by cell id
    codeInput,        \* the value of the textarea.code-input of each code cell
                      \* element, by data-cell-id
    outputDiv,        \* what the .cell-output of each code cell element holds
    cellRunning,      \* the data-cell-ids of the elements that carry cell-running
    selectTimers,     \* the pending timers of Shift+Enter that select the next cell
    lastRun           \* the last call of _executeCell: what it found and what it did

selVars == <<view, doc, focusEnabled, range, selector, outcome, pc, edits>>

findVars == <<findState, find, procs, deliveries, searchContext>>

focusVars == <<annotations, hidden, reloaded>>

gestureVars ==
    <<tool, pointerDownPosition, annotationAction, previewAnnotation, added, primaryPointer>>

sortVars == <<sortInput, sortOutput>>

renderVars ==
    <<docxAnnotations, placeholders, tempAnnotationElements, displayedAnnotationCache,
      displayedAnnotations>>

runVars ==
    <<source, executionState, codeInput, outputDiv, cellRunning, selectTimers, lastRun>>

cellVars ==
    <<notebookCells, cellStates, cellElements, activeCellId, cellMode, deleteKeyCount,
      resetTimers, lastKey, runVars>>

\* Everything outside the selector and find parts.
restVars == <<focusVars, gestureVars, sortVars, renderVars, cellVars>>

vars == <<selVars, findVars, restVars>>

-----------------------------------------------------------------------------
(* Bounds *)

\* Document mutations (element removals, text shrinkage) explored per behaviour.
MaxEdits == 1

\* Largest offset of the hand-made (persisted) selectors given to toDisplayedRange.
MaxPos == 3

\* Find processors created per behaviour.
MaxProcs == 2

-----------------------------------------------------------------------------
(* The test document *)

WS == " "

TokOpen(n)  == [k |-> "open",  n |-> n, c |-> ""]
TokClose(n) == [k |-> "close", n |-> n, c |-> ""]
TokText(n, chars) ==
    <<[k |-> "otext", n |-> n, c |-> ""]>>
    \o [i \in 1..Len(chars) |-> [k |-> "ch", n |-> n, c |-> chars[i]]]
    \o <<[k |-> "ctext", n |-> n, c |-> ""]>>

\* <body>
\*   <p id="p">{t1: " ab"}<span id="span">{t2: "cd"}</span>{t3: " "}</p>
\*   <div id="div" style="display:none">{t4: "ef"}</div>
\*   <p>{t5: "ga "}</p>          ("q": no unique selector can be built for it)
\* </body>
TestDocument ==
    <<TokOpen("body"), TokOpen("p")>> \o TokText("t1", <<WS, "a", "b">>)
    \o <<TokOpen("span")>> \o TokText("t2", <<"c", "d">>) \o <<TokClose("span")>>
    \o TokText("t3", <<WS>>) \o <<TokClose("p")>>
    \o <<TokOpen("div")>> \o TokText("t4", <<"e", "f">>) \o <<TokClose("div")>>
    \o <<TokOpen("q")>> \o TokText("t5", <<"g", "a", WS>>)
    \o <<TokClose("q"), TokClose("body")>>

Body == "body"
DocumentNode == "#document"  \* the Document: parent of <body> here, not an Element
NullNode == "null"

\* Elements rendered with display:none: their text has no client rects.
HiddenElements == {"div"}

\* Elements that focus mode leaves out of the extracted content.
FocusExcluded == {"q"}

\* Elements for which no unique CSS selector can be constructed.
NoUniqueSelector == {"q"}

\* A CSS selector value that matches no element of any document.
NoSuchValue == "#gone"

-----------------------------------------------------------------------------
(* DOM primitives over the token sequence *)

NodeIds == {doc[i].n : i \in 1..Len(doc)}

OpenIdx(n)  == CHOOSE i \in 1..Len(doc) : doc[i].n = n /\ doc[i].k \in {"open", "otext"}
CloseIdx(n) == CHOOSE i \in 1..Len(doc) : doc[i].n = n /\ doc[i].k \in {"close", "ctext"}

IsElement(n) == n \in NodeIds /\ doc[OpenIdx(n)].k = "open"
IsText(n)    == n \in NodeIds /\ doc[OpenIdx(n)].k = "otext"

Elements  == {n \in NodeIds : IsElement(n)}
TextNodes == {n \in NodeIds : IsText(n)}

\* The nodes that are open at gap g (gap g lies between token g and token g+1).
OpenAt(g) == {n \in NodeIds : OpenIdx(n) <= g /\ g < CloseIdx(n)}

\* The innermost of a non-empty set of nodes that are nested in each other.
Innermost(S) == CHOOSE n \in S : \A m \in S : OpenIdx(m) <= OpenIdx(n)

\* The container of the boundary point at gap g.
Container(g) == IF OpenAt(g) = {} THEN DocumentNode ELSE Innermost(OpenAt(g))

parentNode(n) == IF n \in NodeIds THEN Container(OpenIdx(n) - 1) ELSE NullNode

childNodes(n) == {m \in NodeIds : parentNode(m) = n}

\* Node.contains: inclusive descendant.
contains(a, n) ==
    /\ a \in NodeIds /\ n \in NodeIds
    /\ OpenIdx(a) <= OpenIdx(n) /\ CloseIdx(n) <= CloseIdx(a)

\* The offset of the boundary point at gap g within its container.
Offset(g) ==
    LET c == Container(g) IN
    IF c = DocumentNode THEN (IF g = 0 THEN 0 ELSE 1)
    ELSE IF IsText(c) THEN g - OpenIdx(c)
    ELSE Cardinality({m \in childNodes(c) : CloseIdx(m) <= g})

\* element.childNodes[k]
ChildAt(c, k) == CHOOSE m \in childNodes(c) : Offset(OpenIdx(m) - 1) = k

-----------------------------------------------------------------------------
(* Ranges *)

\* A Range: start gap, end gap, and the DOM it lives in ("orig": the document,
\* "focus": the extracted focus-mode content, which keeps the gaps' numbering).
NullRange == [s |-> -1, e |-> -1, dom |-> "none"]

Rng(s, e, dom) == [s |-> s, e |-> e, dom |-> dom]

collapsed(r) == r.s = r.e

startContainer(r) == Container(r.s)
endContainer(r)   == Container(r.e)
startOffset(r)    == Offset(r.s)
endOffset(r)      == Offset(r.e)

commonAncestorContainer(r) ==
    LET both == OpenAt(r.s) \cap OpenAt(r.e) IN
    IF both = {} THEN DocumentNode ELSE Innermost(both)

\* Whether token i belongs to the DOM `dom`: focus mode drops the excluded elements.
InDom(i, dom) ==
    dom = "focus" => \A x \in FocusExcluded \cap NodeIds : ~contains(x, doc[i].n)

\* Whether the boundary point at gap g exists in the focus content.
GapInFocus(g) == \A x \in FocusExcluded \cap NodeIds : ~(OpenIdx(x) <= g /\ g < CloseIdx(x))

\* The characters of tokens lo..hi of DOM `dom`, in document order.
CharsBetween(lo, hi, dom) ==
    LET idx == {i \in lo..hi : doc[i].k = "ch" /\ InDom(i, dom)}
        toks == SelectSeq([j \in 1..(IF hi >= lo THEN hi - lo + 1 ELSE 0) |-> lo + j - 1],
                          LAMBDA i : i \in idx)
    IN  [j \in 1..Len(toks) |-> doc[toks[j]].c]

\* Range.toString()
toString(r) == CharsBetween(r.s + 1, r.e, r.dom)

\* Node.textContent
textContent(n) == CharsBetween(OpenIdx(n) + 1, CloseIdx(n) - 1, "orig")

\* String.prototype.trim()
trim(str) ==
    LET nonWs == {i \in 1..Len(str) : str[i] # WS} IN
    IF nonWs = {} THEN <<>>
    ELSE SubSeq(str, CHOOSE i \in nonWs : \A j \in nonWs : i <= j,
                     CHOOSE i \in nonWs : \A j \in nonWs : j <= i)

\* Range.selectNodeContents(node)
selectNodeContents(n) == Rng(OpenIdx(n), CloseIdx(n) - 1, "orig")

\* Range.selectNode(node): the boundary points around the node, in its parent.
selectNode(n, dom) == Rng(OpenIdx(n) - 1, CloseIdx(n), dom)

\* Range.getClientRects().length > 0: some character of the range is rendered.
hasClientRects(r) ==
    \E i \in (r.s + 1)..r.e :
        /\ doc[i].k = "ch" /\ doc[i].c # WS /\ InDom(i, r.dom)
        /\ \A h \in HiddenElements \cap NodeIds : ~contains(h, doc[i].n)

-----------------------------------------------------------------------------
(* Selectors *)

\* An absent refinedBy.
NoRefinement == [type |-> "none", start |-> 0, end |-> 0]

NullSel == [type |-> "null", value |-> "", start |-> 0, end |-> 0,
            refinedBy |-> NoRefinement]

Refinement(type, start, end) == [type |-> type, start |-> start, end |-> end]

CssSelector(value, refinedBy) ==
    [type |-> "CssSelector", value |-> value, start |-> 0, end |-> 0,
     refinedBy |-> refinedBy]

TextPositionSelector(start, end) ==
    [type |-> "TextPositionSelector", value |-> "", start |-> start, end |-> end,
     refinedBy |-> NoRefinement]

\* `selector.refinedBy` is truthy.
hasRefinedBy(sel) == sel.refinedBy.type # "none"

\* A character that the canonical numbering counts: a character of a text node's
\* trimmed content (whitespace-only nodes and leading/trailing whitespace count 0).
Counted(i, dom) ==
    /\ doc[i].k = "ch" /\ InDom(i, dom)
    /\ \E j \in OpenIdx(doc[i].n)..i : doc[j].k = "ch" /\ doc[j].c # WS
    /\ \E j \in i..CloseIdx(doc[i].n) : doc[j].k = "ch" /\ doc[j].c # WS

\* The canonical offset, from the start of root's text, of the boundary point at gap g.
TextPos(g, root, dom) ==
    Cardinality({i \in (OpenIdx(root) + 1)..g : i < CloseIdx(root) /\ Counted(i, dom)})

\* The tokens of root's counted characters, in document order.
CountedSeq(root, dom) ==
    SelectSeq([j \in 1..(CloseIdx(root) - OpenIdx(root) - 1) |-> OpenIdx(root) + j],
              LAMBDA i : Counted(i, dom))

textPositionFromRange(r, root) ==
    IF \/ r = NullRange
       \/ root \notin NodeIds
       \/ ~(OpenIdx(root) <= r.s /\ r.e < CloseIdx(root))
    THEN NullSel
    ELSE TextPositionSelector(TextPos(r.s, root, r.dom), TextPos(r.e, root, r.dom))

textPositionToRange(sel, root, dom) ==
    LET counted == CountedSeq(root, dom)
        total == Len(counted)
        s == IF sel.start < total THEN counted[sel.start + 1] - 1 ELSE counted[total]
        e == IF sel.end = sel.start THEN s ELSE counted[sel.end]
    IN  IF sel.start < 0 \/ sel.start > sel.end \/ sel.end > total \/ total = 0
        THEN NullRange
        ELSE Rng(s, e, dom)

\* The nearest element at or above the node; NullNode when there is none.
closestElement(n) ==
    IF IsElement(n) THEN n
    ELSE IF n \in NodeIds /\ IsElement(parentNode(n)) THEN parentNode(n)
    ELSE NullNode

\* Node.parentElement
parentElement(n) == IF IsElement(parentNode(n)) THEN parentNode(n) ELSE NullNode

\* A CSS selector value matching exactly the element (modelled as the element's
\* name), or NullNode when none can be constructed.
getUniqueSelectorContaining(el) ==
    IF el \in Elements /\ el \notin NoUniqueSelector THEN el ELSE NullNode

\* Document.querySelector(value)
querySelector(value) == IF value \in Elements THEN value ELSE NullNode

\* FocusMode.mapRangeFromFocus: the range of the original document that a range
\* of the focus content denotes.
mapRangeFromFocus(r) ==
    IF r.dom = "focus" /\ GapInFocus(r.s) /\ GapInFocus(r.e)
    THEN Rng(r.s, r.e, "orig") ELSE NullRange

\* FocusMode.mapRangeToFocus: the range of the focus content that a range of the
\* original document denotes; NullRange when an end lies in excluded content.
mapRangeToFocus(r) ==
    IF r.dom = "orig" /\ GapInFocus(r.s) /\ GapInFocus(r.e)
    THEN Rng(r.s, r.e, "focus") ELSE NullRange

-----------------------------------------------------------------------------
(* toSelector *)

\* The node the selector is built for: the single child the range wraps, or the
\* range's common ancestor.
TargetNode(r) ==
    IF /\ startContainer(r) = endContainer(r)
       /\ startOffset(r) = endOffset(r) - 1
       /\ IsElement(startContainer(r))
    THEN ChildAt(startContainer(r), startOffset(r))
    ELSE commonAncestorContainer(r)

\* A variant of the comparison that leaves out both trim() calls.
TextDiffers_Untrimmed(r, targetElement) == toString(r) # textContent(targetElement)

\* `range.toString().trim() !== (targetElement.textContent || '').trim()`
TextDiffers(r, targetElement) == trim(toString(r)) # trim(textContent(targetElement))

\* `textPositionFromRange(range, targetElement) || undefined`
RefinedByOrUndefined(r, targetElement) ==
    LET tp == textPositionFromRange(r, targetElement) IN
    IF tp = NullSel THEN NoRefinement
    ELSE Refinement("TextPositionSelector", tp.start, tp.end)

\* A variant of DOCXView.toSelector without the document-wide fallback: it gives
\* up when no unique selector can be built for the target element.
DocxToSelector_NoFallback(r) ==
    IF collapsed(r) THEN NullSel
    ELSE LET targetElement == closestElement(TargetNode(r))
             targetElementQuery == getUniqueSelectorContaining(targetElement)
         IN  IF targetElement = NullNode \/ targetElementQuery = NullNode THEN NullSel
             ELSE CssSelector(targetElementQuery,
                              IF TextDiffers(r, targetElement)
                              THEN RefinedByOrUndefined(r, targetElement)
                              ELSE NoRefinement)

DocxToSelector(r) ==
    IF collapsed(r) THEN NullSel
    ELSE LET targetElement == closestElement(TargetNode(r))
             targetElementQuery == getUniqueSelectorContaining(targetElement)
         IN  IF targetElement = NullNode THEN NullSel
             ELSE IF targetElementQuery # NullNode
             THEN CssSelector(targetElementQuery,
                              IF TextDiffers(r, targetElement)
                              THEN RefinedByOrUndefined(r, targetElement)
                              ELSE NoRefinement)
             ELSE textPositionFromRange(r, Body)

SnapshotToSelector(r0) ==
    LET r == IF focusEnabled THEN mapRangeFromFocus(r0) ELSE r0 IN
    IF r = NullRange THEN NullSel
    ELSE LET targetElement == closestElement(TargetNode(r))
             targetElementQuery == getUniqueSelectorContaining(targetElement)
         IN  IF targetElement = NullNode THEN NullSel
             ELSE IF targetElementQuery # NullNode
             THEN CssSelector(targetElementQuery,
                              IF TextDiffers(r, targetElement)
                              THEN RefinedByOrUndefined(r, targetElement)
                              ELSE NoRefinement)
             ELSE textPositionFromRange(r, Body)

NotebookToSelector(r) ==
    LET targetNode == TargetNode(r)
        targetElement == IF IsElement(targetNode) THEN targetNode
                         ELSE IF parentElement(targetNode) # NullNode
                         THEN parentElement(targetNode)
                         ELSE Body
        targetElementQuery == getUniqueSelectorContaining(targetElement)
    IN  IF targetElementQuery # NullNode
        THEN CssSelector(targetElementQuery,
                         IF TextDiffers(r, targetElement)
                         THEN RefinedByOrUndefined(r, targetElement)
                         ELSE NoRefinement)
        ELSE textPositionFromRange(r, Body)

toSelector(r) ==
    CASE view = "docx"     -> DocxToSelector(r)
      [] view = "snapshot" -> SnapshotToSelector(r)
      [] view = "notebook" -> NotebookToSelector(r)

-----------------------------------------------------------------------------
(* toDisplayedRange *)

\* What a toDisplayedRange call did: returned a Range, returned null, or threw.
NoOutcome == [kind |-> "none", range |-> NullRange, error |-> ""]
Returned(r) ==
    IF r = NullRange THEN [kind |-> "null", range |-> NullRange, error |-> ""]
    ELSE [kind |-> "range", range |-> r, error |-> ""]
ReturnedNull == Returned(NullRange)
Thrown(error) == [kind |-> "throw", range |-> NullRange, error |-> error]

\* if (!range.getClientRects().length) {
\*     try { range.selectNode(range.commonAncestorContainer); } catch (e) { return null; }
\* }
\* return range;
\* `range` may be null here: reading getClientRects of null is a TypeError.
ClientRectsFallback(r) ==
    IF r = NullRange THEN Thrown("TypeError")
    ELSE IF hasClientRects(r) THEN Returned(r)
    ELSE IF commonAncestorContainer(r) = DocumentNode THEN ReturnedNull
    ELSE Returned(selectNode(commonAncestorContainer(r), r.dom))

\* A variant of DOCXView.toDisplayedRange that resolves the refinement against the
\* document body instead of the element the selector's value denotes.
DocxToDisplayedRange_BodyRoot(sel) ==
    CASE sel.type = "CssSelector" ->
            IF hasRefinedBy(sel) /\ sel.refinedBy.type # "TextPositionSelector"
            THEN Thrown("Error")
            ELSE LET root == querySelector(sel.value) IN
                 IF root = NullNode THEN ReturnedNull
                 ELSE ClientRectsFallback(
                        IF hasRefinedBy(sel)
                        THEN textPositionToRange(sel.refinedBy, Body, "orig")
                        ELSE selectNodeContents(root))
      [] sel.type = "TextPositionSelector" ->
            IF hasRefinedBy(sel) THEN Thrown("Error")
            ELSE Returned(textPositionToRange(sel, Body, "orig"))
      [] OTHER -> Thrown("Error")

DocxToDisplayedRange(sel) ==
    CASE sel.type = "CssSelector" ->
            IF hasRefinedBy(sel) /\ sel.refinedBy.type # "TextPositionSelector"
            THEN Thrown("Error")
            ELSE LET root == querySelector(sel.value) IN
                 IF root = NullNode THEN ReturnedNull
                 ELSE ClientRectsFallback(
                        IF hasRefinedBy(sel)
                        THEN textPositionToRange(sel.refinedBy, root, "orig")
                        ELSE selectNodeContents(root))
      [] sel.type = "TextPositionSelector" ->
            IF hasRefinedBy(sel) THEN Thrown("Error")
            ELSE Returned(textPositionToRange(sel, Body, "orig"))
      [] OTHER -> Thrown("Error")

\* SnapshotView.toDisplayedRange(selector) when this._focusMode.enabled is `enabled`.
\* onNull: what FocusMode.mapRangeToFocus does when it is handed null instead of
\* a Range ("null": returns null, "throw": raises); the choice is the caller's.
SnapshotToDisplayedRangeUnder(enabled, sel, onNull) ==
    CASE sel.type = "CssSelector" ->
            IF hasRefinedBy(sel) /\ sel.refinedBy.type # "TextPositionSelector"
            THEN Thrown("Error")
            ELSE LET root == querySelector(sel.value)
                     r == IF hasRefinedBy(sel)
                          THEN textPositionToRange(sel.refinedBy, root, "orig")
                          ELSE selectNodeContents(root)
                 IN  IF root = NullNode THEN ReturnedNull
                     ELSE IF enabled
                     THEN IF r = NullRange
                          THEN (IF onNull = "throw" THEN Thrown("TypeError")
                                ELSE ReturnedNull)
                          ELSE IF mapRangeToFocus(r) = NullRange THEN ReturnedNull
                          ELSE ClientRectsFallback(mapRangeToFocus(r))
                     ELSE ClientRectsFallback(r)
      [] sel.type = "TextPositionSelector" ->
            IF hasRefinedBy(sel) THEN Thrown("Error")
            ELSE Returned(textPositionToRange(sel, Body,
                                              IF enabled THEN "focus" ELSE "orig"))
      [] OTHER -> Thrown("Error")

\* SnapshotView.toDisplayedRange(selector) with the mode the view is in
SnapshotToDisplayedRange(sel, onNull) ==
    SnapshotToDisplayedRangeUnder(focusEnabled, sel, onNull)

\* try { if (!selector.refinedBy) return null;
\*       return textPositionToRange(selector.refinedBy, body); }
\* catch (e) { return null; }
NotebookToDisplayedRange(sel) ==
    IF ~hasRefinedBy(sel) THEN ReturnedNull
    ELSE Returned(textPositionToRange(sel.refinedBy, Body, "orig"))

\* A null selector: `selector.type` is a TypeError; NotebookView reads
\* `selector.refinedBy` inside its try block and returns null.
toDisplayedRange(sel, onNull) ==
    CASE view = "docx" ->
            IF sel = NullSel THEN Thrown("TypeError") ELSE DocxToDisplayedRange(sel)
      [] view = "snapshot" ->
            IF sel = NullSel THEN Thrown("TypeError")
            ELSE SnapshotToDisplayedRange(sel, onNull)
      [] view = "notebook" ->
            IF sel = NullSel THEN ReturnedNull ELSE NotebookToDisplayedRange(sel)

-----------------------------------------------------------------------------
(* Find: FindState values and DefaultFindProcessor *)

\* view._findState before the first setFindState call (undefined).
NoFindState ==
    [query |-> "", caseSensitive |-> FALSE, entireWord |-> FALSE,
     highlightAll |-> FALSE, active |-> FALSE, defined |-> FALSE]

FindStateOf(query, caseSensitive, entireWord, highlightAll, active) ==
    [query |-> query, caseSensitive |-> caseSensitive, entireWord |-> entireWord,
     highlightAll |-> highlightAll, active |-> active, defined |-> TRUE]

\* The FindState values the host passes to setFindState: a base state, the base
\* with each single field changed, and a closed state.
FindStates ==
    { FindStateOf("a", FALSE, FALSE, FALSE, TRUE),
      FindStateOf("z", FALSE, FALSE, FALSE, TRUE),
      FindStateOf("a", TRUE,  FALSE, FALSE, TRUE),
      FindStateOf("a", FALSE, TRUE,  FALSE, TRUE),
      FindStateOf("a", FALSE, FALSE, TRUE,  TRUE),
      FindStateOf("a", FALSE, FALSE, FALSE, FALSE) }

\* A search context: the node sequence handed to createSearchContext, and which
\* createSearchContext call made it (`id`: the number of the processor it was first
\* built for); two contexts are the same object iff they are equal.
NoContext == [id |-> 0, nodes |-> <<>>]

createSearchContext(id, nodes) == [id |-> id, nodes |-> nodes]

\* element.querySelectorAll('*'): the descendant elements, in document order.
querySelectorAllElements(root) ==
    LET idx == SelectSeq([i \in 1..Len(doc) |-> i],
                         LAMBDA i : /\ doc[i].k = "open"
                                    /\ OpenIdx(root) < i /\ i < CloseIdx(root))
    IN  [j \in 1..Len(idx) |-> doc[idx[j]].n]

\* The walk of a TreeWalker(el, SHOW_TEXT) that keeps the nodes whose
\* textContent.trim() is not empty.
WalkNonBlankText(el) ==
    LET idx == SelectSeq([i \in 1..Len(doc) |-> i],
                         LAMBDA i : /\ doc[i].k = "otext"
                                    /\ OpenIdx(el) < i /\ i < CloseIdx(el)
                                    /\ trim(textContent(doc[i].n)) # <<>>)
    IN  [j \in 1..Len(idx) |-> doc[idx[j]].n]

\* Array.prototype.flatMap over a sequence of elements.
RECURSIVE FlatMapWalk(_)
FlatMapWalk(els) ==
    IF els = <<>> THEN <<>>
    ELSE WalkNonBlankText(Head(els)) \o FlatMapWalk(Tail(els))

\* DOCXView.setFindState: the `textNodes` array built from the content container.
DocxTextNodes == FlatMapWalk(querySelectorAllElements(Body))

\* getVisibleTextNodes(body): the rendered, non-blank text nodes in document order.
getVisibleTextNodes(root) ==
    SelectSeq(WalkNonBlankText(root),
              LAMBDA t : \A h \in HiddenElements \cap NodeIds : ~contains(h, t))

\* The context DOCXView builds for the processor numbered id.
DocxSearchContext(id) == createSearchContext(id, DocxTextNodes)

\* SnapshotView / NotebookView `get _searchContext()`: built on first use, then
\* the own property defined by Object.defineProperty shadows the getter.
CachedSearchContext(id) ==
    IF searchContext # NoContext THEN searchContext
    ELSE createSearchContext(id, getVisibleTextNodes(Body))

\* The characters of a text node (nodes keep their text when detached).
NodeText(t) ==
    LET idx == SelectSeq([i \in 1..Len(TestDocument) |-> i],
                         LAMBDA i : TestDocument[i].k = "ch" /\ TestDocument[i].n = t)
    IN  [j \in 1..Len(idx) |-> TestDocument[idx[j]].c]

\* The number of matches a scan of the context finds for a query: the occurrences
\* of the query character in the context's nodes.
MatchTotal(context, fs) ==
    LET RECURSIVE Count(_)
        Count(nodes) ==
            IF nodes = <<>> THEN 0
            ELSE Len(SelectSeq(NodeText(Head(nodes)), LAMBDA c : c = fs.query))
                 + Count(Tail(nodes))
    IN  Count(context.nodes)

\* new DefaultFindProcessor({ findState, onSetFindState }): `state` is the
\* setFindState argument the onSetFindState closure captured, `findState` the
\* processor's own copy (ownFindState); no scan has been started and the cursor is
\* unset.  `context` is the search context its run() is given; `opened` tells
\* whether the processor was created by freshly opening find, and `autoNext`
\* counts the next() calls made on it by run-completion continuations.
NewProcessor(state, ownFindState) ==
    [state |-> state, findState |-> ownFindState, cancelled |-> FALSE,
     run |-> "idle", pos |-> 0, context |-> NoContext, opened |-> FALSE,
     autoNext |-> 0]

\* processor.cancel()
Cancel(ps, p) == IF p = 0 THEN ps ELSE [ps EXCEPT ![p].cancelled = TRUE]

\* One call of options.onSetFindState made through processor p's closure, when
\* `newest` processors had been created.
Delivery(ps, p) ==
    [proc |-> p, newest |-> Len(ps), state |-> ps[p].state,
     total |-> MatchTotal(ps[p].context, ps[p].findState), index |-> ps[p].pos]

\* Whether processor p passes a result to its onSetFindState closure when asked
\* to: never once cancelled.
Delivers(ps, p) == ~ps[p].cancelled

\* Whether processor.next() / prev() has a match to move to: the scan has
\* completed, found something, and the processor is not cancelled.
CanStep(ps, p) ==
    /\ p # 0
    /\ ~ps[p].cancelled
    /\ ps[p].run = "done"
    /\ MatchTotal(ps[p].context, ps[p].findState) > 0

\* processor.next(): advance the cursor circularly.
StepNext(ps, p) ==
    IF CanStep(ps, p)
    THEN [ps EXCEPT ![p].pos = (ps[p].pos % MatchTotal(ps[p].context, ps[p].findState)) + 1]
    ELSE ps

\* processor.prev(): retreat the cursor circularly.
StepPrev(ps, p) ==
    IF CanStep(ps, p)
    THEN [ps EXCEPT ![p].pos = IF ps[p].pos <= 1 THEN MatchTotal(ps[p].context, ps[p].findState)
                                 ELSE ps[p].pos - 1]
    ELSE ps

\* The deliveries after a next()/prev() call that left the processors as ps.
AfterStep(ps, p, ds) == IF CanStep(ps, p) THEN ds \cup {Delivery(ps, p)} ELSE ds

\* No find has been started.
FindIdle ==
    /\ findState = NoFindState
    /\ find = 0
    /\ procs = <<>>
    /\ deliveries = {}
    /\ searchContext = NoContext

-----------------------------------------------------------------------------
(* Sort indexes *)

\* Strings are sequences of one-character strings.  Lengths and pixel
\* coordinates are counted in half pixels, so that a coordinate need not be a
\* whole number of pixels.
PxUnit == 2

\* SORT_INDEX_LENGTH of dom/notebook/defines.ts (SnapshotView, NotebookView)
SORT_INDEX_LENGTH == 8

\* `const SORT_INDEX_LENGTH = 7` local to the methods of DOCXView
DOCX_SORT_INDEX_LENGTH == 7

\* The characters a sort index can hold, in the order of their code units.
Alphabet == <<"-", "0", "1", "2", "3", "4", "5", "6", "7", "8", "9">>

DigitChars == {Alphabet[i] : i \in 2..11}

DigitChar(d) == Alphabet[d + 2]

RECURSIVE NatString(_)
NatString(n) ==
    IF n < 10 THEN <<DigitChar(n)>>
    ELSE NatString(n \div 10) \o <<DigitChar(n % 10)>>

\* String(n) of an integer n
String(n) == IF n < 0 THEN <<"-">> \o NatString(0 - n) ELSE NatString(n)

\* A variant of padStart that pads at the end of the string (padEnd).
padStart_AtEnd(str, targetLength, padString) ==
    IF Len(str) >= targetLength THEN str
    ELSE str \o [i \in 1..(targetLength - Len(str)) |-> padString]

\* String.prototype.padStart with a one-character pad string
padStart(str, targetLength, padString) ==
    IF Len(str) >= targetLength THEN str
    ELSE [i \in 1..(targetLength - Len(str)) |-> padString] \o str

\* String.prototype.substring(indexStart, indexEnd), 0 <= indexStart <= indexEnd
substring(str, indexStart, indexEnd) ==
    SubSeq(str, indexStart + 1, IF indexEnd < Len(str) THEN indexEnd ELSE Len(str))

\* Math.floor of a length given in half pixels, in pixels
floor(h) == h \div PxUnit

\* The tail of SnapshotView._getSortIndex: the count as a string of the width
SnapshotSortIndex(count) ==
    LET countString == padStart(String(count), SORT_INDEX_LENGTH, "0") IN
    IF Len(countString) > SORT_INDEX_LENGTH
    THEN substring(countString, 0, SORT_INDEX_LENGTH)
    ELSE countString

\* The sort index of DOCXView._getAnnotationFromRange and _createTextAnnotation
DocxSortIndex(count) ==
    LET sortIndex == padStart(String(count), DOCX_SORT_INDEX_LENGTH, "0") IN
    IF Len(sortIndex) > DOCX_SORT_INDEX_LENGTH
    THEN substring(sortIndex, 0, DOCX_SORT_INDEX_LENGTH)
    ELSE sortIndex

\* NotebookView._getSortIndex for a text position starting at `start`
NotebookSortIndex(start) == padStart(String(start), SORT_INDEX_LENGTH, "0")

\* The sort index of a range whose start lies `count` characters into the body
RangeSortIndex(count) ==
    CASE view = "docx"     -> DocxSortIndex(count)
      [] view = "snapshot" -> SnapshotSortIndex(count)
      [] view = "notebook" -> NotebookSortIndex(count)

\* The sort index of an image or ink annotation whose top (first point) is at
\* y: `String(Math.floor(y)).padStart(SORT_INDEX_LENGTH, '0')`
PixelSortIndex(y) ==
    padStart(String(floor(y)),
             IF view = "docx" THEN DOCX_SORT_INDEX_LENGTH ELSE SORT_INDEX_LENGTH, "0")

\* No sort index has been asked for.
NoSortInput == [kind |-> "none", a |-> 0, b |-> 0]

SortIdle ==
    /\ sortInput = NoSortInput
    /\ sortOutput = <<>>

-----------------------------------------------------------------------------
(* Annotations: hidden annotations and freeform (text, image, ink) creation *)

\* No call of options.onSetHiddenAnnotations yet.  `ids` is the list passed by
\* the last call; `serial` alternates from one call to the next.
NoHidden == [called |-> FALSE, ids |-> <<>>, serial |-> 0]

\* An annotation of view._annotations, as far as its id and position go
Annotation(id, position) == [id |-> id, position |-> position]

FocusIdle ==
    /\ annotations = <<>>
    /\ hidden = NoHidden
    /\ reloaded = <<>>

NoPoint == [set |-> FALSE, x |-> 0, y |-> 0]

\* A variant of Point that stores no position.
Point_NotStored(x, y) == NoPoint

\* `{ x, y }`
Point(x, y) == [set |-> TRUE, x |-> x, y |-> y]

NoAction == [type |-> "none", startX |-> 0, startY |-> 0, paths |-> <<>>]

\* The auxiliary geometry of a freeform annotation: `keys` are the properties
\* that are present.
NoGeometry ==
    [keys |-> {}, rects |-> <<>>, fontSize |-> 0, rotation |-> 0,
     paths |-> <<>>, width |-> 0]

TextGeometry(rect, fontSize) ==
    [NoGeometry EXCEPT !.keys = {"rects", "fontSize", "rotation"},
                       !.rects = <<rect>>, !.fontSize = fontSize]

ImageGeometry(rect) == [NoGeometry EXCEPT !.keys = {"rects"}, !.rects = <<rect>>]

InkGeometry(paths, width) ==
    [NoGeometry EXCEPT !.keys = {"paths", "width"}, !.paths = paths, !.width = width]

\* `{ ...selector, ...geometry }`: the selector with the geometry's properties
PositionOf(sel, geometry) == [selector |-> sel, geometry |-> geometry]

NoAnnotation ==
    [type |-> "none", sortIndex |-> <<>>, position |-> PositionOf(NullSel, NoGeometry),
     positionData |-> NoGeometry]

\* `{ type, color, sortIndex, position }` followed by
\* `annotation._positionData = positionData`
NewAnnotation(type, sortIndex, position, positionData) ==
    [type |-> type, sortIndex |-> sortIndex, position |-> position,
     positionData |-> positionData]

\* The tools of the reader: `size` 0 stands for a tool without a size.
Tools == [type : {"text", "image", "ink", "highlight"}, size : {0, 4 * PxUnit}]

GestureIdle ==
    /\ tool = [type |-> "highlight", size |-> 0]
    /\ pointerDownPosition = NoPoint
    /\ annotationAction = NoAction
    /\ previewAnnotation = NoAnnotation
    /\ added = <<>>
    /\ primaryPointer = "up"

\* No annotation has been given to the DOCX view and nothing has been rendered.
RenderIdle ==
    /\ docxAnnotations = <<>>
    /\ placeholders = <<>>
    /\ tempAnnotationElements = <<>>
    /\ displayedAnnotationCache = <<>>
    /\ displayedAnnotations = <<>>

NoCell == 0

\* No keydown event yet
NoKey ==
    [key |-> "none", age |-> 0, first |-> FALSE, gap |-> "none",
     deleted |-> FALSE, several |-> FALSE]

\* No call of _executeCell yet
NoRun ==
    [called |-> FALSE, marked |-> FALSE, blank |-> FALSE, dispatches |-> 0, kept |-> TRUE,
     blankSeen |-> FALSE]

\* No notebook is shown.
CellIdle ==
    /\ source = <<>>
    /\ executionState = <<>>
    /\ codeInput = <<>>
    /\ outputDiv = <<>>
    /\ cellRunning = {}
    /\ selectTimers = 0
    /\ lastRun = NoRun
    /\ notebookCells = <<>>
    /\ cellStates = {}
    /\ cellElements = <<>>
    /\ activeCellId = NoCell
    /\ cellMode = "null"
    /\ deleteKeyCount = 0
    /\ resetTimers = {}
    /\ lastKey = NoKey

RestIdle == FocusIdle /\ GestureIdle /\ SortIdle /\ RenderIdle /\ CellIdle

-----------------------------------------------------------------------------
(* Selector operations as actions *)

\* The ranges a caller can hand to toSelector: both ends inside <body>, in the
\* DOM that is displayed.
InputRanges ==
    LET dom == IF focusEnabled THEN "focus" ELSE "orig" IN
    {r \in [s : 1..(Len(doc) - 1), e : 1..(Len(doc) - 1), dom : {dom}] :
        /\ r.s <= r.e
        /\ focusEnabled => GapInFocus(r.s) /\ GapInFocus(r.e)}

SelectorValues == {"p", "span", "div", NoSuchValue}

\* Selectors as they arrive from storage: well-formed ones, and malformed ones
\* (foreign refinement, refined TextPositionSelector, unknown or missing type).
PersistedSelectors ==
    {CssSelector(v, NoRefinement) : v \in SelectorValues}
    \cup {CssSelector(v, Refinement("TextPositionSelector", a, b)) :
            v \in SelectorValues, a \in 0..MaxPos, b \in 0..MaxPos}
    \cup {CssSelector(v, Refinement(t, 0, 1)) :
            v \in SelectorValues, t \in {"CssSelector", "FragmentSelector"}}
    \cup {TextPositionSelector(a, b) : a \in 0..MaxPos, b \in 0..MaxPos}
    \cup {[TextPositionSelector(0, 1) EXCEPT
             !.refinedBy = Refinement("TextPositionSelector", 0, 1)]}
    \cup {[CssSelector("p", NoRefinement) EXCEPT !.type = t] :
            t \in {"FragmentSelector", ""}}

\* A view over the test document, holding either a live range that toSelector
\* is about to be called with, or a selector read back from storage.
Init ==
    /\ view \in {"docx", "snapshot", "notebook"}
    /\ doc = TestDocument
    /\ focusEnabled \in (IF view = "snapshot" THEN BOOLEAN ELSE {FALSE})
    /\ \/ range \in InputRanges /\ selector = NullSel /\ pc = "range"
       \/ range = NullRange /\ selector \in PersistedSelectors /\ pc = "loaded"
    /\ outcome = NoOutcome
    /\ edits = 0
    /\ FindIdle
    /\ RestIdle

\* view.toSelector(range)
ToSelector ==
    /\ pc = "range"
    /\ range # NullRange
    /\ selector' = toSelector(range)
    /\ pc' = "selected"
    /\ UNCHANGED <<view, doc, focusEnabled, range, outcome, edits, findVars, restVars>>

\* view.toDisplayedRange(selector)
ToDisplayedRange(onNull) ==
    /\ pc \in {"selected", "loaded"}
    /\ outcome = NoOutcome
    /\ outcome' = toDisplayedRange(selector, onNull)
    /\ UNCHANGED <<view, doc, focusEnabled, range, selector, pc, edits, findVars, restVars>>

\* The document changes between sessions: an element is removed.
RemoveElement(n) ==
    /\ edits < MaxEdits
    /\ doc' = SelectSeq(doc, LAMBDA t : ~contains(n, t.n))
    /\ edits' = edits + 1
    /\ range' = NullRange
    /\ outcome' = NoOutcome
    /\ UNCHANGED <<view, focusEnabled, selector, pc, findVars, restVars>>

\* The document changes between sessions: a text node loses its last character.
ShrinkText(t) ==
    /\ edits < MaxEdits
    /\ CloseIdx(t) - OpenIdx(t) > 1
    /\ doc' = SubSeq(doc, 1, CloseIdx(t) - 2) \o SubSeq(doc, CloseIdx(t), Len(doc))
    /\ edits' = edits + 1
    /\ range' = NullRange
    /\ outcome' = NoOutcome
    /\ UNCHANGED <<view, focusEnabled, selector, pc, findVars, restVars>>

\* A variant of the filter that keeps the annotations whose position resolves.
IsInaccessible_Resolved(enabled, a, onNull) ==
    SnapshotToDisplayedRangeUnder(enabled, a.position, onNull) # ReturnedNull

\* `!this.toDisplayedRange(a.position)`, this._focusMode.enabled being `enabled`
IsInaccessible(enabled, a, onNull) ==
    SnapshotToDisplayedRangeUnder(enabled, a.position, onNull) = ReturnedNull

\* Whether toDisplayedRange raises for some annotation of the view.
FilterThrows(enabled, onNull) ==
    \E i \in 1..Len(annotations) :
        SnapshotToDisplayedRangeUnder(enabled, annotations[i].position, onNull).kind
            = "throw"

\* `this._annotations.filter(a => !this.toDisplayedRange(a.position)).map(a => a.id)`
InaccessibleIds(enabled, onNull) ==
    LET kept == SelectSeq(annotations, LAMBDA a : IsInaccessible(enabled, a, onNull))
    IN  [i \in 1..Len(kept) |-> kept[i].id]

\* options.onSetHiddenAnnotations(ids)
OnSetHiddenAnnotations(ids) ==
    [called |-> TRUE, ids |-> ids, serial |-> 1 - hidden.serial]

\* SnapshotView.setFocusModeEnabled(enabled): the mode is set first, and the
\* filter runs under the new mode; when toDisplayedRange raises, the handler
\* ends there and options.onSetHiddenAnnotations is not called.  The displayed
\* DOM is swapped when the mode changes, so a live range of the other DOM is gone.
SetFocusModeEnabled(enabled) ==
    /\ view = "snapshot"
    /\ focusEnabled' = enabled
    /\ UNCHANGED <<view, doc, selector, pc, edits, annotations, reloaded>>
    /\ range' = IF enabled # focusEnabled THEN NullRange ELSE range
    /\ outcome' = IF enabled # focusEnabled THEN NoOutcome ELSE outcome
    /\ \E onNull \in {"null", "throw"} :
          hidden' = IF ~enabled THEN OnSetHiddenAnnotations(<<>>)
                    ELSE IF FilterThrows(enabled, onNull) THEN hidden
                    ELSE OnSetHiddenAnnotations(InaccessibleIds(enabled, onNull))
    /\ UNCHANGED <<findVars, gestureVars, sortVars, renderVars, cellVars>>

Next ==
    \/ ToSelector
    \/ \E onNull \in {"null", "throw"} : ToDisplayedRange(onNull)
    \/ \E n \in Elements \ {Body} : RemoveElement(n)
    \/ \E t \in TextNodes : ShrinkText(t)
    \/ \E enabled \in BOOLEAN : SetFocusModeEnabled(enabled)

Spec == Init /\ [][Next]_vars

-----------------------------------------------------------------------------
(* Claims about selectors, checked under Spec *)

\* toSelector has been called on `range` and the document has not changed since.
Selected == pc = "selected" /\ range # NullRange

\* toDisplayedRange has been called on `selector` in the current document.
Resolved == outcome # NoOutcome

\* The range as toSelector sees it after focus-mode mapping.
OrigRange == Rng(range.s, range.e, "orig")

\* A round trip toDisplayedRange(toSelector(range)) in an unchanged document, for a
\* non-collapsed range with non-empty trimmed text.
RoundTripDone ==
    /\ Selected /\ Resolved
    /\ ~collapsed(range)
    /\ trim(toString(range)) # <<>>

RoundTripOk ==
    /\ outcome.kind = "range"
    /\ trim(toString(outcome.range)) = trim(toString(range))

\* C1, as stated: in DOCXView and in SnapshotView with focus mode disabled, every
\* round trip of a non-collapsed range with non-empty trimmed text yields a
\* non-null range with the same trimmed text.
C1_RoundTripEveryRange ==
    (view \in {"docx", "snapshot"} /\ ~focusEnabled /\ RoundTripDone) => RoundTripOk

\* C1, amended: the same, for every such range that has at least one client rect
\* (some of its text is rendered).
C1_RoundTripRenderedRange ==
    (view \in {"docx", "snapshot"} /\ ~focusEnabled /\ RoundTripDone
        /\ hasClientRects(range)) => RoundTripOk

C1_Witness ==
    /\ view = "snapshot" /\ ~focusEnabled /\ RoundTripDone /\ hasClientRects(range)
    /\ hasRefinedBy(selector)
    /\ startContainer(range) # endContainer(range)
    /\ RoundTripOk

\* C3: in every view, toDisplayedRange of a CssSelector whose refinedBy.type is
\* not 'TextPositionSelector' raises an error.
C3_ForeignRefinementRaises ==
    (/\ Resolved
     /\ selector.type = "CssSelector"
     /\ hasRefinedBy(selector)
     /\ selector.refinedBy.type # "TextPositionSelector") => outcome.kind = "throw"

\* C4: in every view, resolving a CssSelector (refinedBy absent or a
\* TextPositionSelector) whose value matches no element returns null and does not
\* throw.
C4_MissingAnchorReturnsNull ==
    (/\ Resolved
     /\ selector.type = "CssSelector"
     /\ selector.refinedBy.type \in {"none", "TextPositionSelector"}
     /\ querySelector(selector.value) = NullNode) => outcome.kind = "null"

\* The length of the element's text in the canonical numbering, in document d.
TrimmedTextLength(d, el) ==
    Cardinality({i \in 1..Len(d) :
        /\ d[i].k = "ch"
        /\ \E o \in 1..i, c \in i..Len(d) :
              d[o] = TokOpen(el) /\ d[c] = TokClose(el)
        /\ \E j \in 1..i : d[j].n = d[i].n /\ d[j].k = "ch" /\ d[j].c # WS
        /\ \E j \in i..Len(d) : d[j].n = d[i].n /\ d[j].k = "ch" /\ d[j].c # WS})

\* C5: in DOCXView and SnapshotView, when the anchor element still exists but its
\* text has shrunk since the selector was saved, so that the refinement's offsets
\* exceed it (textPositionToRange yields null), toDisplayedRange returns null and
\* raises nothing.
C5_ShrunkTextReturnsNull ==
    (/\ Resolved
     /\ pc = "loaded"
     /\ view \in {"docx", "snapshot"}
     /\ selector.type = "CssSelector"
     /\ selector.refinedBy.type = "TextPositionSelector"
     /\ querySelector(selector.value) # NullNode
     /\ selector.refinedBy.start <= selector.refinedBy.end
     /\ selector.refinedBy.end <= TrimmedTextLength(TestDocument, selector.value)
     /\ selector.refinedBy.end > TrimmedTextLength(doc, selector.value)
     /\ textPositionToRange(selector.refinedBy, querySelector(selector.value), "orig")
            = NullRange) => outcome.kind = "null"

\* C6: whenever toSelector returns a CssSelector, it carries refinedBy if and only
\* if the range's trimmed text differs from the full trimmed text of the element
\* the selector's value denotes.
C6_RefinedIffStrictSubrange ==
    (Selected /\ selector.type = "CssSelector") =>
        /\ selector.value \in Elements
        /\ hasRefinedBy(selector)
             <=> trim(toString(OrigRange)) # trim(textContent(selector.value))
        /\ hasRefinedBy(selector) => selector.refinedBy.type = "TextPositionSelector"

C6_Witness ==
    /\ Selected /\ selector.type = "CssSelector" /\ ~collapsed(range)
    /\ ~hasRefinedBy(selector)
    /\ toString(OrigRange) # textContent(selector.value)

\* C7: in every view, toSelector returns null for every collapsed range.
C7_CollapsedGivesNull ==
    (Selected /\ collapsed(range)) => selector = NullSel

\* C8: in every view, toDisplayedRange of a selector whose type is neither
\* 'CssSelector' nor 'TextPositionSelector' raises an error.
C8_UnknownTypeRaises ==
    (/\ Resolved
     /\ selector # NullSel
     /\ selector.type \notin {"CssSelector", "TextPositionSelector"})
        => outcome.kind = "throw"

\* C9: in NotebookView, every round trip of a non-collapsed range with non-empty
\* trimmed text yields a non-null range with the same trimmed text.
C9_NotebookRoundTrip ==
    (view = "notebook" /\ RoundTripDone) => RoundTripOk

\* C10: for every non-collapsed range whose target node has an element ancestor,
\* toSelector returns a CssSelector for that element when a unique CSS selector
\* exists for it, otherwise a bare TextPositionSelector over the document body;
\* never null.
C10_SelectorAlwaysProduced ==
    (Selected /\ ~collapsed(range) /\ closestElement(TargetNode(OrigRange)) # NullNode) =>
        LET targetElement == closestElement(TargetNode(OrigRange)) IN
        /\ selector # NullSel
        /\ IF targetElement \notin NoUniqueSelector
           THEN selector.type = "CssSelector" /\ selector.value = targetElement
           ELSE selector = TextPositionSelector(TextPos(range.s, Body, "orig"),
                                                TextPos(range.e, Body, "orig"))

C10_Witness ==
    /\ Selected /\ ~collapsed(range)
    /\ closestElement(TargetNode(OrigRange)) \in NoUniqueSelector
    /\ selector.type = "TextPositionSelector"
    /\ selector.start < selector.end

-----------------------------------------------------------------------------
(* Find operations as actions *)

\* A variant of the new-search condition that also compares highlightAll.
SearchChanged_WithHighlightAll(previousState, state) ==
    \/ ~previousState.defined
    \/ previousState.query # state.query
    \/ previousState.caseSensitive # state.caseSensitive
    \/ previousState.entireWord # state.entireWord
    \/ previousState.highlightAll # state.highlightAll
    \/ previousState.active # state.active

\* Whether setFindState(state) starts a new search, given the previous state.
SearchChanged(previousState, state) ==
    \/ ~previousState.defined
    \/ previousState.query # state.query
    \/ previousState.caseSensitive # state.caseSensitive
    \/ previousState.entireWord # state.entireWord
    \/ previousState.active # state.active

\* A variant of the closing condition with the comparison of `active` inverted.
Closing_SameActive(previousState, state) ==
    ~state.active /\ previousState.defined /\ previousState.active = state.active

\* `!state.active && previousState && previousState.active !== state.active`
Closing(previousState, state) ==
    ~state.active /\ previousState.defined /\ previousState.active # state.active

\* Whether find is being freshly opened: there was no active find before.
Opening(previousState) == ~previousState.defined \/ ~previousState.active

\* Appends a processor for `state` and starts its run(context).
StartProcessor(ps, state, ownFindState, context, opened) ==
    Append(ps, [NewProcessor(state, ownFindState) EXCEPT
                    !.run = "pending", !.context = context, !.opened = opened])

\* DOCXView.setFindState(state)
DocxSetFindState(state) ==
    LET previousState == findState IN
    /\ findState' = state
    /\ IF Closing(previousState, state)
       THEN /\ procs' = Cancel(procs, find)
            /\ find' = 0
       ELSE IF state.active /\ (find = 0 \/ SearchChanged(previousState, state))
       THEN /\ Len(procs) < MaxProcs
            /\ procs' = StartProcessor(Cancel(procs, find), state,
                                       [state EXCEPT !.active = TRUE],
                                       DocxSearchContext(Len(procs) + 1),
                                       Opening(previousState))
            /\ find' = Len(procs) + 1
       ELSE IF state.active /\ previousState.highlightAll # state.highlightAll
       THEN /\ procs' = [procs EXCEPT ![find].findState.highlightAll = state.highlightAll]
            /\ find' = find
       ELSE UNCHANGED <<find, procs>>
    /\ UNCHANGED <<deliveries, searchContext>>

\* SnapshotView.setFindState(state), up to its await
SnapshotSetFindState(state) ==
    LET previousState == findState IN
    /\ findState' = state
    /\ IF Closing(previousState, state)
       THEN /\ find' = 0
            /\ UNCHANGED <<procs, searchContext>>
       ELSE IF state.active /\ SearchChanged(previousState, state)
       THEN /\ Len(procs) < MaxProcs
            /\ searchContext' = CachedSearchContext(Len(procs) + 1)
            /\ procs' = StartProcessor(procs, state, state, searchContext',
                                       Opening(previousState))
            /\ find' = Len(procs) + 1
       ELSE IF state.active /\ previousState.highlightAll # state.highlightAll
       THEN /\ find # 0
            /\ procs' = [procs EXCEPT ![find].findState.highlightAll = state.highlightAll]
            /\ find' = find
            /\ UNCHANGED searchContext
       ELSE UNCHANGED <<find, procs, searchContext>>
    /\ UNCHANGED deliveries

\* NotebookView.setFindState(state), up to its await
NotebookSetFindState(state) ==
    LET previousState == findState IN
    /\ findState' = state
    /\ IF Closing(previousState, state)
       THEN /\ find' = 0
            /\ UNCHANGED <<procs, searchContext>>
       ELSE IF state.active /\ SearchChanged(previousState, state)
       THEN /\ Len(procs) < MaxProcs
            /\ searchContext' = CachedSearchContext(Len(procs) + 1)
            /\ procs' = StartProcessor(procs, state, state, searchContext',
                                       Opening(previousState))
            /\ find' = Len(procs) + 1
       ELSE IF state.active /\ previousState.highlightAll # state.highlightAll /\ find # 0
       THEN /\ procs' = [procs EXCEPT ![find].findState.highlightAll = state.highlightAll]
            /\ find' = find
            /\ UNCHANGED searchContext
       ELSE UNCHANGED <<find, procs, searchContext>>
    /\ UNCHANGED deliveries

SetFindState(state) ==
    /\ CASE view = "docx"     -> DocxSetFindState(state)
         [] view = "snapshot" -> SnapshotSetFindState(state)
         [] view = "notebook" -> NotebookSetFindState(state)
    /\ UNCHANGED <<selVars, restVars>>

\* The next() call a run-completion continuation makes on this._find.
AutoNext(ps, p) ==
    IF p = 0 THEN ps
    ELSE [StepNext(ps, p) EXCEPT ![p].autoNext = ps[p].autoNext + 1]

\* processor p's run() completes: unless cancelled it passes its results to its
\* onSetFindState closure; then the view's code after the run resumes, which
\* calls next() on whatever processor is this._find by then
\* (DOCX: `if (this._find && this._find.next())`; Snapshot, Notebook: findNext()).
RunCompletes(p) ==
    /\ procs[p].run = "pending"
    /\ LET done == [procs EXCEPT ![p].run = "done"]
           ran  == IF Delivers(done, p) THEN deliveries \cup {Delivery(done, p)}
                   ELSE deliveries
           nxt  == AutoNext(done, find)
       IN  /\ procs' = nxt
           /\ deliveries' = AfterStep(nxt, find, ran)
    /\ UNCHANGED <<findState, find, searchContext, selVars, restVars>>

\* view.findNext()
FindNext ==
    /\ find # 0
    /\ procs' = StepNext(procs, find)
    /\ deliveries' = AfterStep(procs', find, deliveries)
    /\ UNCHANGED <<findState, find, searchContext, selVars, restVars>>

\* view.findPrevious()
FindPrevious ==
    /\ find # 0
    /\ procs' = StepPrev(procs, find)
    /\ deliveries' = AfterStep(procs', find, deliveries)
    /\ UNCHANGED <<findState, find, searchContext, selVars, restVars>>

\* A view over the test document in which no find has been started.
FindInit ==
    /\ view \in {"docx", "snapshot", "notebook"}
    /\ doc = TestDocument
    /\ focusEnabled = FALSE
    /\ range = NullRange
    /\ selector = NullSel
    /\ pc = "loaded"
    /\ outcome = NoOutcome
    /\ edits = 0
    /\ FindIdle
    /\ RestIdle

\* The elements whose removal the find behaviours explore, while find is closed:
\* the paragraph that holds a match of the base query.
FindRemovable == {"q"}

FindNextStep ==
    \/ \E state \in FindStates : SetFindState(state)
    \/ \E p \in 1..Len(procs) : RunCompletes(p)
    \/ FindNext
    \/ FindPrevious
    \/ find = 0 /\ \E n \in FindRemovable \cap Elements : RemoveElement(n)

SpecFind == FindInit /\ [][FindNextStep]_vars

-----------------------------------------------------------------------------
(* Claims about find, checked under SpecFind *)

\* C2: in every view, once search B has been started, search A's processor passes
\* nothing to options.onSetFindState: every call is made through the closure of
\* the newest processor.
C2_OnlyNewestDelivers ==
    \A d \in deliveries : d.proc = d.newest

\* Whether two FindStates agree on query, caseSensitive, entireWord and active.
SameSearch(a, b) ==
    /\ a.query = b.query /\ a.caseSensitive = b.caseSensitive
    /\ a.entireWord = b.entireWord /\ a.active = b.active

\* C11: a setFindState(state) call with state.active whose query, caseSensitive,
\* entireWord and active equal the previous state's creates no processor and
\* starts no run, and a highlightAll change is written to the current processor's
\* findState; a call that changes one of the four creates a processor, makes it
\* the current one and starts its run.
C11_HighlightAllKeepsProcessor ==
    [][ /\ (/\ findState'.active /\ findState.defined
            /\ SameSearch(findState, findState'))
           => /\ Len(procs') = Len(procs)
              /\ find' = find
              /\ \A p \in 1..Len(procs) :
                    procs'[p].run = "pending" => procs[p].run = "pending"
              /\ (find # 0 /\ findState'.highlightAll # findState.highlightAll)
                    => procs'[find].findState.highlightAll = findState'.highlightAll
        /\ (/\ findState'.active
            /\ ~(findState.defined /\ SameSearch(findState, findState')))
           => /\ Len(procs') = Len(procs) + 1
              /\ find' = Len(procs')
              /\ procs'[find'].run = "pending"
              /\ procs'[find'].findState.query = findState'.query
      ]_vars

C11_Witness ==
    /\ find # 0
    /\ findState.highlightAll
    /\ ~procs[find].state.highlightAll
    /\ procs[find].findState.highlightAll
    /\ Len(procs) = 1

\* C12: in every view, every processor that setFindState has replaced or
\* discarded has had cancel() called on it.
C12_ReplacedProcessorCancelled ==
    \A p \in 1..Len(procs) : p # find => procs[p].cancelled

\* C13: once the find state has gone from active to inactive, the view holds no
\* processor, and until find is activated again no processor's cursor moves,
\* also when the run of the discarded processor completes.
C13_ClosedFindHoldsNoProcessor ==
    /\ []((findState.defined /\ ~findState.active) => find = 0)
    /\ [][ (findState.defined /\ ~findState.active /\ ~findState'.active)
             => \A p \in 1..Len(procs) :
                    /\ procs'[p].pos = procs[p].pos
                    /\ procs'[p].autoNext = procs[p].autoNext ]_vars

C13_Witness ==
    /\ findState.defined /\ ~findState.active
    /\ Len(procs) = 1
    /\ procs[1].run = "done"
    /\ procs[1].pos = 0
    /\ MatchTotal(procs[1].context, procs[1].findState) > 0

\* C14: a processor created while find stays open runs on the same search
\* context as the processor before it, and a processor created by freshly opening
\* find runs on a context that no earlier processor used.
C14_ContextPerFindSession ==
    \A p \in 1..Len(procs) :
        IF procs[p].opened
        THEN \A q \in 1..(p - 1) : procs[q].context # procs[p].context
        ELSE p > 1 /\ procs[p].context = procs[p - 1].context

\* The non-blank text nodes of the content container, once each, in document order.
NonBlankTextNodesInOrder == WalkNonBlankText(Body)

\* C15: the node sequence of the context DOCXView builds holds every non-blank
\* text node of the content container exactly once, in document order.
C15_DocxContextNodesOnceInOrder ==
    (view = "docx" /\ find # 0 /\ procs[find].context.id = Len(procs)
        /\ procs[find].run = "pending" /\ edits = 0)
        => procs[find].context.nodes = NonBlankTextNodesInOrder

\* C20: the processor the view holds has received no automatic next() before its
\* own run completed, and exactly one once it has.
C20_AutoNextOnCompletedRun ==
    find # 0 => procs[find].autoNext = (IF procs[find].run = "done" THEN 1 ELSE 0)

\* C21: every find state passed to options.onSetFindState carries the
\* highlightAll value of the most recent setFindState call, also after a
\* highlightAll-only toggle that kept the processor.
C21_DeliveredHighlightAllIsLatest ==
    [][\A d \in deliveries' \ deliveries :
          d.state.highlightAll = findState'.highlightAll]_vars

-----------------------------------------------------------------------------
(* Sort indexes as a specification of their own: two numbers are drawn and  *)
(* the view formats them.                                                    *)

\* Largest leading digit of the numbers that are drawn
MaxLeading == 2

RECURSIVE Pow10(_)
Pow10(k) == IF k = 0 THEN 1 ELSE 10 * Pow10(k - 1)

\* The fixed width of the view's sort indexes
SortWidth == IF view = "docx" THEN DOCX_SORT_INDEX_LENGTH ELSE SORT_INDEX_LENGTH

\* Character counts around every power of ten, up to one digit more than the
\* width
CountValues ==
    {0} \cup {c * Pow10(k) + d : c \in 1..MaxLeading, k \in 0..SortWidth, d \in {-1, 0}}

\* Pixel coordinates in half pixels: whole and half pixels of the same sizes,
\* and half a pixel above the document's top
PixelValues ==
    {-1} \cup {PxUnit * n + f : n \in CountValues, f \in {0, 1}}

SortInit ==
    /\ view \in {"docx", "snapshot", "notebook"}
    /\ doc = TestDocument
    /\ focusEnabled = FALSE
    /\ range = NullRange
    /\ selector = NullSel
    /\ outcome = NoOutcome
    /\ pc = "sort"
    /\ edits = 0
    /\ FindIdle
    /\ FocusIdle
    /\ GestureIdle
    /\ RenderIdle
    /\ CellIdle
    /\ \/ sortInput \in {i \in [kind : {"range"}, a : CountValues, b : CountValues] :
                            i.a <= i.b}
       \/ /\ view # "notebook"
          /\ sortInput \in {i \in [kind : {"pixel"}, a : PixelValues, b : PixelValues] :
                               i.a = i.b}
    /\ sortOutput = <<>>

\* _getSortIndex / _getAnnotationFromRange for two ranges whose starts have the
\* drawn character counts
GetSortIndex ==
    /\ sortInput.kind = "range"
    /\ sortOutput = <<>>
    /\ sortOutput' = <<RangeSortIndex(sortInput.a), RangeSortIndex(sortInput.b)>>
    /\ UNCHANGED <<selVars, findVars, focusVars, gestureVars, sortInput, renderVars, cellVars>>

\* The sort index of _createImageAnnotation / _createInkAnnotation for the drawn
\* coordinate
GetPixelSortIndex ==
    /\ sortInput.kind = "pixel"
    /\ sortOutput = <<>>
    /\ sortOutput' = <<PixelSortIndex(sortInput.a), PixelSortIndex(sortInput.b)>>
    /\ UNCHANGED <<selVars, findVars, focusVars, gestureVars, sortInput, renderVars, cellVars>>

SortNext ==
    \/ GetSortIndex
    \/ GetPixelSortIndex

SpecSort == SortInit /\ [][SortNext]_vars

-----------------------------------------------------------------------------
(* Claims about sort indexes, checked under SpecSort *)

\* s <= t for two strings, as JavaScript compares them: by the first code unit
\* that differs, a proper prefix being smaller.
CharOrder(c) == CHOOSE i \in 1..Len(Alphabet) : Alphabet[i] = c

StringLeq(s, t) ==
    LET n == IF Len(s) < Len(t) THEN Len(s) ELSE Len(t)
        diff == {i \in 1..n : s[i] # t[i]}
    IN  IF diff = {} THEN Len(s) <= Len(t)
        ELSE LET k == CHOOSE i \in diff : \A j \in diff : i <= j
             IN  CharOrder(s[k]) < CharOrder(t[k])

\* C18: every sort index a view produces, for a character count or a pixel
\* coordinate of any size, is exactly as long as the view's fixed width and
\* holds decimal digits only.
C18_SortIndexFixedWidthDigits ==
    \A i \in 1..Len(sortOutput) :
        /\ Len(sortOutput[i]) = SortWidth
        /\ \A j \in 1..Len(sortOutput[i]) : sortOutput[i][j] \in DigitChars

-----------------------------------------------------------------------------
(* Focus mode and hidden annotations as a specification of their own: a     *)
(* SnapshotView holding a few annotations, whose document loses elements.   *)

\* Annotations held by the view
MaxAnnotations == 2

\* Positions of the annotations: elements that are rendered, hidden, left out of
\* the focus content or missing; text inside an element and past its end; a
\* document-wide text position; a refinement of a foreign type.
AnnotationPositions ==
    {CssSelector(v, NoRefinement) : v \in {"p", "div", "q", NoSuchValue}}
    \cup {CssSelector("p", Refinement("TextPositionSelector", 0, 2)),
          CssSelector("span", Refinement("TextPositionSelector", 0, MaxPos)),
          TextPositionSelector(0, MaxPos),
          CssSelector("p", Refinement("FragmentSelector", 0, 1))}

AnnotationLists ==
    UNION {{[i \in 1..n |-> Annotation(i, ps[i])] : ps \in [1..n -> AnnotationPositions]} :
              n \in 0..MaxAnnotations}

FocusInit ==
    /\ view = "snapshot"
    /\ doc = TestDocument
    /\ focusEnabled \in BOOLEAN
    /\ range = NullRange
    /\ selector = NullSel
    /\ outcome = NoOutcome
    /\ pc = "focus"
    /\ edits = 0
    /\ FindIdle
    /\ annotations \in AnnotationLists
    /\ hidden = NoHidden
    /\ reloaded = <<>>
    /\ GestureIdle
    /\ SortIdle
    /\ RenderIdle
    /\ CellIdle

FocusNext ==
    \/ \E enabled \in BOOLEAN : SetFocusModeEnabled(enabled)
    \/ \E n \in Elements \ {Body} : RemoveElement(n)

SpecFocus == FocusInit /\ [][FocusNext]_vars

-----------------------------------------------------------------------------
(* Claims about focus mode, checked under SpecFocus *)

\* The ids of the list, as a set
IdSet(ids) == {ids[i] : i \in 1..Len(ids)}

\* The ids of the annotations whose position resolves to null under focus mode.
UnresolvedIds ==
    {annotations[i].id : i \in {j \in 1..Len(annotations) :
        SnapshotToDisplayedRangeUnder(TRUE, annotations[j].position, "null")
            = ReturnedNull}}

\* C16: whenever setFocusModeEnabled(true) completes, the list it has passed to
\* onSetHiddenAnnotations holds exactly the ids of the annotations whose position
\* resolves to null under focus mode, each once; whenever setFocusModeEnabled(false)
\* completes, the list it has passed is empty.  (The call leaves the document and
\* the annotations as they are.)
C16_HiddenAreTheUnresolved ==
    [][hidden'.serial # hidden.serial =>
          /\ doc' = doc
          /\ annotations' = annotations
          /\ IF focusEnabled'
             THEN /\ IdSet(hidden'.ids) = UnresolvedIds
                  /\ Len(hidden'.ids) = Cardinality(UnresolvedIds)
             ELSE hidden'.ids = <<>>]_vars

\* Focus mode is on, the last call passed some annotations but not all, and focus
\* mode had been switched off (with an empty list) before.
C16_Witness ==
    /\ focusEnabled
    /\ hidden.called
    /\ hidden.serial = 0
    /\ hidden.ids # <<>>
    /\ Len(hidden.ids) < Len(annotations)
    /\ edits > 0

-----------------------------------------------------------------------------
(* Freeform annotations: creation *)

\* `this._tool.size || 16`, in pixels
DefaultFontSize == 16

\* `this._tool.size || 2`, in pixels
DefaultInkWidth == 2

\* The index of <body> among the children of <html>: it follows <head>.
BodyIndex == 1

\* this.toSelector(range) for the range of `range.selectNode(body)`: the range
\* wraps the single child <body> of the element <html>, so <body> is the target.
AnchorSelector ==
    LET r0 == selectNode(Body, IF focusEnabled THEN "focus" ELSE "orig")
        r == IF view = "snapshot" /\ focusEnabled THEN mapRangeFromFocus(r0) ELSE r0
        targetElement == Body
        targetElementQuery == getUniqueSelectorContaining(targetElement)
    IN  IF r = NullRange \/ collapsed(r) THEN NullSel
        ELSE IF targetElementQuery # NullNode
        THEN CssSelector(targetElementQuery,
                         IF TextDiffers(r, targetElement)
                         THEN RefinedByOrUndefined(r, targetElement)
                         ELSE NoRefinement)
        ELSE textPositionFromRange(r, Body)

\* getCount(body, range.startContainer, range.startOffset) for that range:
\* <html> contains the first text node, so the result is the start offset.
AnchorCount == IF TextNodes = {} THEN 0 ELSE BodyIndex

\* SnapshotView._createTextAnnotation(position)
SnapshotCreateTextAnnotation(position) ==
    LET fontSize == IF tool.size # 0 THEN tool.size ELSE DefaultFontSize * PxUnit
        rect == <<position.x - fontSize \div 2, position.y - fontSize \div 2,
                  position.x + fontSize \div 2, position.y + fontSize \div 2>>
        sel == AnchorSelector
    IN  IF sel = NullSel THEN NoAnnotation
        ELSE NewAnnotation("text", SnapshotSortIndex(AnchorCount),
                           PositionOf(sel, TextGeometry(rect, fontSize)),
                           TextGeometry(rect, fontSize))

\* DOCXView._createTextAnnotation(position)
DocxCreateTextAnnotation(position) ==
    LET fontSize == IF tool.size # 0 THEN tool.size ELSE DefaultFontSize * PxUnit
        rect == <<position.x - fontSize \div 2, position.y - fontSize \div 2,
                  position.x + fontSize \div 2, position.y + fontSize \div 2>>
        sel == AnchorSelector
    IN  IF sel = NullSel THEN NoAnnotation
        ELSE NewAnnotation("text", DocxSortIndex(AnchorCount),
                           PositionOf(sel, NoGeometry),
                           TextGeometry(rect, fontSize))

Min2(a, b) == IF a < b THEN a ELSE b
Max2(a, b) == IF a > b THEN a ELSE b

\* `[Math.min(startX, endX), Math.min(startY, endY), Math.max(...), Math.max(...)]`
ImageRect(startX, startY, endX, endY) ==
    <<Min2(startX, endX), Min2(startY, endY), Max2(startX, endX), Max2(startY, endY)>>

\* SnapshotView._createImageAnnotation(params)
SnapshotCreateImageAnnotation(startX, startY, endX, endY) ==
    LET rect == ImageRect(startX, startY, endX, endY)
        sel == AnchorSelector
    IN  IF sel = NullSel THEN NoAnnotation
        ELSE NewAnnotation("image", PixelSortIndex(rect[2]),
                           PositionOf(sel, ImageGeometry(rect)), ImageGeometry(rect))

\* DOCXView._createImageAnnotation(params)
DocxCreateImageAnnotation(startX, startY, endX, endY) ==
    LET rect == ImageRect(startX, startY, endX, endY)
        sel == AnchorSelector
    IN  IF sel = NullSel THEN NoAnnotation
        ELSE NewAnnotation("image", PixelSortIndex(rect[2]),
                           PositionOf(sel, NoGeometry), ImageGeometry(rect))

\* SnapshotView._createInkAnnotation(action)
SnapshotCreateInkAnnotation(action) ==
    LET width == IF tool.size # 0 THEN tool.size ELSE DefaultInkWidth * PxUnit
        sel == AnchorSelector
    IN  IF action.paths = <<>> \/ Len(action.paths[1]) < 2 THEN NoAnnotation
        ELSE IF sel = NullSel THEN NoAnnotation
        ELSE NewAnnotation("ink", PixelSortIndex(action.paths[1][2]),
                           PositionOf(sel, InkGeometry(action.paths, width)),
                           InkGeometry(action.paths, width))

\* DOCXView._createInkAnnotation(action)
DocxCreateInkAnnotation(action) ==
    LET width == IF tool.size # 0 THEN tool.size ELSE DefaultInkWidth * PxUnit
        sel == AnchorSelector
    IN  IF action.paths = <<>> \/ Len(action.paths[1]) < 2 THEN NoAnnotation
        ELSE IF sel = NullSel THEN NoAnnotation
        ELSE NewAnnotation("ink", PixelSortIndex(action.paths[1][2]),
                           PositionOf(sel, NoGeometry),
                           InkGeometry(action.paths, width))

createTextAnnotation(position) ==
    IF view = "docx" THEN DocxCreateTextAnnotation(position)
    ELSE SnapshotCreateTextAnnotation(position)

createImageAnnotation(startX, startY, endX, endY) ==
    IF view = "docx" THEN DocxCreateImageAnnotation(startX, startY, endX, endY)
    ELSE SnapshotCreateImageAnnotation(startX, startY, endX, endY)

createInkAnnotation(action) ==
    IF view = "docx" THEN DocxCreateInkAnnotation(action)
    ELSE SnapshotCreateInkAnnotation(action)

-----------------------------------------------------------------------------
(* Freeform annotations: the pointer handlers of SnapshotView and DOCXView *)

\* Annotations committed per behaviour
MaxAdded == 1

\* Pointer moves per ink stroke
MaxMoves == 2

\* `Math.abs(rect[2] - rect[0]) > 10`: pixels an image box must exceed
MinImageSide == 10

\* `pathLength >= 4`: coordinates an ink path must hold to be committed
MinInkPathLength == 4

\* Document coordinates of the pointer (clientX + scrollX), in half pixels
PointerCoords == {1, 45}

PointerEvents ==
    [x : PointerCoords, y : PointerCoords, buttons : {0, 1}, isPrimary : BOOLEAN]

FreeformTools == {"text", "image", "ink"}

Abs(n) == IF n < 0 THEN 0 - n ELSE n

\* A variant of the size test with `||` in place of `&&`.
ImageLargeEnough_EitherSide(rect) ==
    \/ Abs(rect[3] - rect[1]) > MinImageSide * PxUnit
    \/ Abs(rect[4] - rect[2]) > MinImageSide * PxUnit

\* `rect && Math.abs(rect[2] - rect[0]) > 10 && Math.abs(rect[3] - rect[1]) > 10`
\* for a rect that is defined
ImageLargeEnough(rect) ==
    /\ Abs(rect[3] - rect[1]) > MinImageSide * PxUnit
    /\ Abs(rect[4] - rect[2]) > MinImageSide * PxUnit

\* this._options.onAddAnnotation(annotation, true)
OnAddAnnotation(annotation) == Append(added, annotation)

\* The annotations the reader can give to the DOCX view
MaxRendered == 3

\* The key of the preview among the displayed annotations ('_previewAnnotation');
\* the other keys are annotation ids, 1 and up.
PreviewKey == 0

\* No range (null)
NoDisplayedRange == [node |-> 0, s |-> -1, e |-> -1]

\* The state _renderAnnotations works on, with the range last built
RenderState ==
    [placeholders |-> placeholders, temp |-> tempAnnotationElements,
     cache |-> displayedAnnotationCache, out |-> <<>>, range |-> NoDisplayedRange]

\* A live range of the body after the children at the positions `removed` have
\* been removed: a boundary behind a removed child moves up by one.  Ranges
\* inside the document content (node 0) are not touched.
AfterRemoveChild(r, removed) ==
    IF r.node = 0 THEN r
    ELSE [node |-> r.node,
          s |-> r.s - Cardinality({k \in removed : k <= r.s}),
          e |-> r.e - Cardinality({k \in removed : k <= r.e})]

\* An element that is not in use: document.createElement('div')
CreateElement(st) ==
    LET used == {st.placeholders[k] : k \in 1..Len(st.placeholders)}
                \cup {st.cache[i].range.node : i \in DOMAIN st.cache}
                \cup {st.out[i].range.node : i \in 1..Len(st.out)}
    IN  CHOOSE n \in 1..(Cardinality(used) + 1) :
            n \notin used /\ \A m \in 1..(n - 1) : m \in used

\* The elements of earlier calls are removed from the document
\* (`elem.parentNode.removeChild(elem)`), which moves the boundaries of the
\* ranges that exist, and this._tempAnnotationElements is emptied.
RemoveTempElements(st) ==
    LET temp == {st.temp[j] : j \in 1..Len(st.temp)}
        removed == {k \in 1..Len(st.placeholders) : st.placeholders[k] \in temp}
    IN  [placeholders |-> SelectSeq(st.placeholders, LAMBDA el : el \notin temp),
         temp |-> <<>>,
         cache |-> [i \in DOMAIN st.cache |->
                      [st.cache[i] EXCEPT !.range = AfterRemoveChild(@, removed)]],
         out |-> [i \in 1..Len(st.out) |->
                    [st.out[i] EXCEPT !.range = AfterRemoveChild(@, removed)]],
         range |-> NoDisplayedRange]

\* `body.appendChild(tempDiv); range.selectNode(tempDiv);
\* this._tempAnnotationElements.push(tempDiv)`
SelectNewElement(st, tempDiv) ==
    [st EXCEPT !.placeholders = Append(st.placeholders, tempDiv),
               !.temp = Append(st.temp, tempDiv),
               !.range = [node |-> tempDiv, s |-> Len(st.placeholders),
                          e |-> Len(st.placeholders) + 1]]

\* The rest of _createRangeFromPositionData after the clean-up: an element for
\* the first rectangle or the first path, null without either.
SelectForPositionData(cleaned, positionData) ==
    IF positionData.rects # <<>> \/ positionData.paths # <<>>
    THEN SelectNewElement(cleaned, CreateElement(cleaned))
    ELSE cleaned

\* _createRangeFromPositionData(positionData)
createRangeFromPositionData(st, positionData) ==
    SelectForPositionData(RemoveTempElements(st), positionData)

\* The range toDisplayedRange gives, null when it gives none
SelectorRange(st, r) ==
    [st EXCEPT !.range = IF r.kind # "range" \/ r.range = NullRange
                         THEN NoDisplayedRange
                         ELSE [node |-> 0, s |-> r.range.s, e |-> r.range.e]]

\* The range of an annotation or of the preview: from _positionData for a text,
\* image or ink annotation that has it, from the selector otherwise.
RangeFor(st, annotation) ==
    IF annotation.type \in FreeformTools /\ annotation.positionData # NoGeometry
    THEN createRangeFromPositionData(st, annotation.positionData)
    ELSE SelectorRange(st, DocxToDisplayedRange(annotation.position.selector))

\* The displayed annotation made for the range just built: it is put into the
\* cache unless it is the preview; without a range there is none.
WithDisplayed(made, key, type) ==
    IF made.range = NoDisplayedRange THEN made
    ELSE [made EXCEPT
            !.cache = IF key = PreviewKey THEN made.cache
                      ELSE [k \in DOMAIN made.cache \cup {key} |->
                              IF k = key THEN [key |-> key, type |-> type,
                                               range |-> made.range]
                              ELSE made.cache[k]],
            !.out = Append(made.out, [key |-> key, type |-> type, range |-> made.range])]

\* The callback of `this._annotations.map(...)` for one annotation: the cached
\* displayed annotation, or a new one; null is filtered out.
MapAnnotation(annotation, st) ==
    IF annotation.id \in DOMAIN st.cache
    THEN [st EXCEPT !.out = Append(st.out, st.cache[annotation.id])]
    ELSE WithDisplayed(RangeFor(st, annotation), annotation.id, annotation.type)

\* `this._annotations.map(...).filter(a => !!a)`, in the order of the list
MapAnnotations(list, st) ==
    LET after[i \in 0..Len(list)] ==
            IF i = 0 THEN st ELSE MapAnnotation(list[i], after[i - 1])
    IN  after[Len(list)]

\* The preview annotation, if there is one, with its range
WithPreview(st, preview) ==
    IF preview = NoAnnotation THEN st
    ELSE WithDisplayed(RangeFor(st, preview), PreviewKey, preview.type)

\* The annotations and the preview with their ranges, before the visibility
\* filter
Displayed(list, preview) == WithPreview(MapAnnotations(list, RenderState), preview)

\* What a rendering leaves behind; `visible` are the keys of the displayed
\* annotations whose bounding rectangle lies in the window.
Rendered(st, visible) ==
    /\ placeholders' = st.placeholders
    /\ tempAnnotationElements' = st.temp
    /\ displayedAnnotationCache' = st.cache
    /\ displayedAnnotations' = SelectSeq(st.out, LAMBDA d : d.key \in visible)

\* _renderAnnotations() of the DOCX view with annotations shown, `list` being
\* this._annotations and `preview` this._previewAnnotation.
RenderAnnotations(list, preview, visible) == Rendered(Displayed(list, preview), visible)

\* The keys the displayed annotations of `list` and of the preview can have
KeysOf(list) == {list[i].id : i \in 1..Len(list)} \cup {PreviewKey}

\* The handlers of the DOCX view render; those of the snapshot view call the
\* renderer of the base class, which has none of this state.
RenderIn(calls, preview) ==
    IF view = "docx" /\ calls
    THEN /\ \E visible \in SUBSET KeysOf(docxAnnotations) :
               RenderAnnotations(docxAnnotations, preview, visible)
         /\ UNCHANGED docxAnnotations
    ELSE UNCHANGED renderVars

\* _handlePointerDown(event); onAnnotation: an existing annotation lies under the
\* pointer.  The primary pointer goes down only when it is up.
HandlePointerDown(event, onAnnotation) ==
    /\ Len(added) < MaxAdded
    /\ event.isPrimary => primaryPointer = "up"
    /\ primaryPointer' = IF ~event.isPrimary THEN primaryPointer
                         ELSE IF onAnnotation THEN "downOnAnnotation" ELSE "down"
    /\ IF /\ event.buttons = 1
          /\ event.isPrimary
          /\ tool.type \in FreeformTools
          /\ ~onAnnotation
       THEN /\ pointerDownPosition' = Point(event.x, event.y)
            /\ IF tool.type = "ink"
               THEN LET action == [NoAction EXCEPT !.type = "ink",
                                                   !.paths = <<<<event.x, event.y>>>>]
                    IN  /\ annotationAction' = action
                        /\ previewAnnotation' = createInkAnnotation(action)
                        /\ RenderIn(TRUE, createInkAnnotation(action))
               ELSE /\ annotationAction' = [NoAction EXCEPT !.type = tool.type,
                                                           !.startX = event.x,
                                                           !.startY = event.y]
                    /\ UNCHANGED <<previewAnnotation, renderVars>>
       ELSE UNCHANGED <<pointerDownPosition, annotationAction, previewAnnotation,
                        renderVars>>
    /\ UNCHANGED <<tool, added, selVars, findVars, focusVars, sortVars, cellVars>>

\* _handlePointerMove(event): the primary pointer reports the left button as
\* pressed only while it is down.
HandlePointerMove(event) ==
    /\ (event.isPrimary /\ event.buttons = 1) => primaryPointer # "up"
    /\ annotationAction.type = "ink" => Len(annotationAction.paths[1]) < 2 * (1 + MaxMoves)
    /\ IF event.buttons = 1 /\ event.isPrimary /\ annotationAction # NoAction
       THEN CASE annotationAction.type = "ink" ->
                    LET action == [annotationAction EXCEPT
                                     !.paths[1] = @ \o <<event.x, event.y>>]
                    IN  /\ annotationAction' = action
                        /\ previewAnnotation' = createInkAnnotation(action)
                        /\ RenderIn(TRUE, createInkAnnotation(action))
              [] annotationAction.type = "image" ->
                    LET preview == createImageAnnotation(annotationAction.startX,
                                                         annotationAction.startY,
                                                         event.x, event.y)
                    IN  /\ previewAnnotation' = preview
                        /\ RenderIn(TRUE, preview)
                        /\ UNCHANGED annotationAction
              [] OTHER -> UNCHANGED <<annotationAction, previewAnnotation, renderVars>>
       ELSE UNCHANGED <<annotationAction, previewAnnotation, renderVars>>
    /\ UNCHANGED <<tool, pointerDownPosition, added, primaryPointer,
                   selVars, findVars, focusVars, sortVars, cellVars>>

\* _handlePointerUp(event): the primary pointer goes up only when it is down.
HandlePointerUp(event) ==
    /\ event.isPrimary => primaryPointer # "up"
    /\ primaryPointer' = IF event.isPrimary THEN "up" ELSE primaryPointer
    /\ IF event.isPrimary /\ annotationAction # NoAction
       THEN /\ CASE annotationAction.type = "text" ->
                      LET annotation == createTextAnnotation(pointerDownPosition) IN
                      /\ added' = IF pointerDownPosition.set /\ annotation # NoAnnotation
                                  THEN OnAddAnnotation(annotation) ELSE added
                      /\ \E hasId \in BOOLEAN :
                            RenderIn(/\ pointerDownPosition.set
                                     /\ annotation # NoAnnotation
                                     /\ hasId,
                                     previewAnnotation)
                      /\ UNCHANGED previewAnnotation
                 [] annotationAction.type = "image" ->
                      IF previewAnnotation # NoAnnotation
                      THEN LET rects == previewAnnotation.positionData.rects IN
                           /\ added' = IF rects # <<>> /\ ImageLargeEnough(rects[1])
                                       THEN OnAddAnnotation(previewAnnotation)
                                       ELSE added
                           /\ previewAnnotation' = NoAnnotation
                           /\ RenderIn(TRUE, NoAnnotation)
                      ELSE UNCHANGED <<added, previewAnnotation, renderVars>>
                 [] annotationAction.type = "ink" ->
                      /\ added' = IF /\ previewAnnotation # NoAnnotation
                                     /\ Len(annotationAction.paths[1]) >= MinInkPathLength
                                  THEN OnAddAnnotation(previewAnnotation) ELSE added
                      /\ previewAnnotation' = NoAnnotation
                      /\ RenderIn(TRUE, NoAnnotation)
            /\ annotationAction' = NoAction
            /\ pointerDownPosition' = NoPoint
       ELSE UNCHANGED <<pointerDownPosition, annotationAction, previewAnnotation, added,
                        renderVars>>
    /\ UNCHANGED <<tool, selVars, findVars, focusVars, sortVars, cellVars>>

GestureInit ==
    /\ view \in {"docx", "snapshot"}
    /\ doc = TestDocument
    /\ focusEnabled \in (IF view = "snapshot" THEN BOOLEAN ELSE {FALSE})
    /\ range = NullRange
    /\ selector = NullSel
    /\ outcome = NoOutcome
    /\ pc = "gesture"
    /\ edits = 0
    /\ FindIdle
    /\ FocusIdle
    /\ tool \in Tools
    /\ pointerDownPosition = NoPoint
    /\ annotationAction = NoAction
    /\ previewAnnotation = NoAnnotation
    /\ added = <<>>
    /\ primaryPointer = "up"
    /\ SortIdle
    /\ RenderIdle
    /\ CellIdle

GestureNext ==
    \/ \E event \in PointerEvents, onAnnotation \in BOOLEAN :
          HandlePointerDown(event, onAnnotation)
    \/ \E event \in PointerEvents : HandlePointerMove(event)
    \/ \E event \in PointerEvents : HandlePointerUp(event)

SpecGesture == GestureInit /\ [][GestureNext]_vars

-----------------------------------------------------------------------------
(* Claims about freeform annotations, checked under SpecGesture *)

\* The geometry properties an annotation of the type needs to be drawn
GeometryKeys(type) ==
    CASE type = "text"  -> {"rects", "fontSize"}
      [] type = "image" -> {"rects"}
      [] type = "ink"   -> {"paths", "width"}
      [] OTHER -> {}

\* C17: every text, image and ink annotation handed to onAddAnnotation carries
\* its auxiliary geometry (rects and fontSize, or rects, or paths and width)
\* inside its position, with the values it was created with.
C17_GeometryInsidePosition ==
    \A i \in 1..Len(added) :
        LET a == added[i] IN
        /\ GeometryKeys(a.type) \subseteq a.position.geometry.keys
        /\ a.position.geometry = a.positionData

\* A step in which a pointerup of the primary pointer is handled while a gesture
\* is in progress.
GestureEnds ==
    /\ primaryPointer # "up"
    /\ primaryPointer' = "up"
    /\ annotationAction # NoAction

HasCorner(rect, x, y) == x \in {rect[1], rect[3]} /\ y \in {rect[2], rect[4]}

-----------------------------------------------------------------------------
(* Freeform annotations coming back from storage: SnapshotView.setAnnotations *)

\* Annotations per setAnnotations call
MaxReloaded == 1

\* The annotation as the store returns it: the persisted properties only, without
\* _positionData.
Persisted(a) == [a EXCEPT !.positionData = NoGeometry]

\* A variant of the reconstruction that does not look at the annotation's type.
ReconstructPositionData_AnyType(a) ==
    LET position == a.position.geometry IN
    IF a.positionData # NoGeometry THEN a.positionData
    ELSE IF "rects" \in position.keys
    THEN [NoGeometry EXCEPT !.keys = {"rects", "fontSize", "rotation"},
                            !.rects = position.rects,
                            !.fontSize = position.fontSize,
                            !.rotation = position.rotation]
    ELSE IF "paths" \in position.keys
    THEN [NoGeometry EXCEPT !.keys = {"paths", "width"},
                            !.paths = position.paths,
                            !.width = IF position.width # 0 THEN position.width
                                      ELSE DefaultInkWidth * PxUnit]
    ELSE a.positionData

\* The _positionData of the annotation after the loop body of setAnnotations:
\* `fontSize: position.fontSize` (0 when the position has none),
\* `rotation: position.rotation || 0`, `width: position.width || 2`.
ReconstructPositionData(a) ==
    LET position == a.position.geometry IN
    IF a.type \notin FreeformTools \/ a.positionData # NoGeometry THEN a.positionData
    ELSE IF "rects" \in position.keys
    THEN [NoGeometry EXCEPT !.keys = {"rects", "fontSize", "rotation"},
                            !.rects = position.rects,
                            !.fontSize = position.fontSize,
                            !.rotation = position.rotation]
    ELSE IF "paths" \in position.keys
    THEN [NoGeometry EXCEPT !.keys = {"paths", "width"},
                            !.paths = position.paths,
                            !.width = IF position.width # 0 THEN position.width
                                      ELSE DefaultInkWidth * PxUnit]
    ELSE a.positionData

\* Annotations of another type: a highlight of the whole body, and one whose
\* position holds a rectangle.
OtherAnnotations ==
    {NewAnnotation("highlight", SnapshotSortIndex(0),
                   PositionOf(CssSelector(Body, NoRefinement), g), NoGeometry) :
        g \in {NoGeometry, ImageGeometry(<<0, 0, PxUnit, PxUnit>>)}}

\* What setAnnotations can be given: annotations the view has created, as they
\* are in memory or as the store returns them, and annotations of another type.
GivenAnnotations ==
    {added[i] : i \in 1..Len(added)}
    \cup {Persisted(added[i]) : i \in 1..Len(added)}
    \cup OtherAnnotations

\* SnapshotView.setAnnotations(annotations): the annotations are completed in
\* place and become the view's annotations.
SetAnnotations(given) ==
    /\ view = "snapshot"
    /\ reloaded' = [i \in 1..Len(given) |->
                      [given |-> given[i],
                       left |-> [given[i] EXCEPT
                                   !.positionData = ReconstructPositionData(given[i])]]]
    /\ annotations' = [i \in 1..Len(given) |-> Annotation(i, given[i].position.selector)]
    /\ UNCHANGED <<hidden, selVars, findVars, gestureVars, sortVars, renderVars, cellVars>>

ReloadInit ==
    /\ GestureInit
    /\ view = "snapshot"

ReloadNext ==
    \/ GestureNext
    \/ \E n \in 0..MaxReloaded : \E given \in [1..n -> GivenAnnotations] :
          SetAnnotations(given)

SpecReload == ReloadInit /\ [][ReloadNext]_vars

-----------------------------------------------------------------------------
(* Claims about reloaded annotations, checked under SpecReload *)

\* The annotations the view created of which `given` is the persisted form.
CreatedAs(given) == {i \in 1..Len(added) : Persisted(added[i]) = given}

\* C25: a text, image or ink annotation created by SnapshotView and given back to
\* setAnnotations without _positionData gets a _positionData with the rects,
\* fontSize and rotation (text), the rects (image) or the paths and width (ink)
\* it was created with; an annotation that has _positionData, and an annotation
\* of another type, is left as it was given.
C25_ReloadRestoresGeometry ==
    \A k \in 1..Len(reloaded) :
        LET given == reloaded[k].given
            left == reloaded[k].left
        IN  /\ (given.type \in FreeformTools /\ given.positionData = NoGeometry) =>
                  \A i \in CreatedAs(given) :
                      LET made == added[i].positionData IN
                      /\ given.type \in {"text", "image"} =>
                            left.positionData.rects = made.rects
                      /\ given.type = "text" =>
                            /\ left.positionData.fontSize = made.fontSize
                            /\ left.positionData.rotation = made.rotation
                      /\ given.type = "ink" =>
                            /\ left.positionData.paths = made.paths
                            /\ left.positionData.width = made.width
                      /\ [left EXCEPT !.positionData = NoGeometry] = given
            /\ (given.type \notin FreeformTools \/ given.positionData # NoGeometry) =>
                  left = given

\* An ink annotation the view created has come back from the store without
\* _positionData and has got one.
C25_Witness ==
    \E k \in 1..Len(reloaded) :
        /\ reloaded[k].given.type = "ink"
        /\ reloaded[k].given.positionData = NoGeometry
        /\ CreatedAs(reloaded[k].given) # {}
        /\ reloaded[k].left.positionData # NoGeometry

-----------------------------------------------------------------------------
(* Rendering the annotations of the DOCX view *)

\* The annotation objects the reader holds: a text annotation with its rectangle,
\* an ink annotation with its path, a highlight, in turn.
ReaderAnnotation(id) ==
    LET position == PositionOf(CssSelector(Body, NoRefinement), NoGeometry)
        at == id * PxUnit
    IN  [id |-> id,
         type |-> CASE id % 3 = 1 -> "text" [] id % 3 = 2 -> "ink" [] OTHER -> "highlight",
         position |-> position,
         positionData |-> CASE id % 3 = 1 ->
                                 TextGeometry(<<at, at, at + PxUnit, at + PxUnit>>,
                                              DefaultFontSize * PxUnit)
                            [] id % 3 = 2 ->
                                 InkGeometry(<<<<at, at, at + PxUnit, at + PxUnit>>>>,
                                             DefaultInkWidth * PxUnit)
                            [] OTHER -> NoGeometry]

\* The lists the reader gives: some of its annotations, in the order of their ids
ReaderLists ==
    {list \in UNION {[1..n -> 1..MaxRendered] : n \in 0..MaxRendered} :
        \A i \in 1..(Len(list) - 1) : list[i] < list[i + 1]}

\* setAnnotations(annotations) of the DOCX view: the annotations are stored and
\* rendered.
DocxSetAnnotations(ids) ==
    LET list == [i \in 1..Len(ids) |-> ReaderAnnotation(ids[i])] IN
    /\ view = "docx"
    /\ docxAnnotations' = list
    /\ \E visible \in SUBSET KeysOf(list) :
          RenderAnnotations(list, previewAnnotation, visible)
    /\ UNCHANGED <<selVars, findVars, focusVars, gestureVars, sortVars, cellVars>>

RenderInit ==
    /\ GestureInit
    /\ view = "docx"
    /\ tool.type = "ink"

\* The reader gives annotations while strokes are begun and ended.
RenderNext ==
    \/ \E event \in PointerEvents, onAnnotation \in BOOLEAN :
          HandlePointerDown(event, onAnnotation)
    \/ \E event \in PointerEvents : HandlePointerUp(event)
    \/ \E ids \in ReaderLists : DocxSetAnnotations(ids)

SpecRender == RenderInit /\ [][RenderNext]_vars

-----------------------------------------------------------------------------
(* Claims about rendering, checked under SpecRender *)

\* The range selects the placeholder element built for it, and the element is a
\* child of the body.
SelectsAttachedPlaceholder(r) ==
    /\ r.e = r.s + 1
    /\ r.e \in 1..Len(placeholders)
    /\ placeholders[r.e] = r.node

\* The displayed annotations whose range was built from _positionData
DisplayedFreeform ==
    {i \in 1..Len(displayedAnnotations) : displayedAnnotations[i].range.node # 0}

\* C24: after _renderAnnotations, the range of every displayed text, image or ink
\* annotation with position data, and of the preview, selects a placeholder
\* element that is attached to the document.
C24_DisplayedRangesSelectPlaceholders ==
    \A i \in DisplayedFreeform :
        SelectsAttachedPlaceholder(displayedAnnotations[i].range)

-----------------------------------------------------------------------------
(* The cells of the notebook view: NotebookView *)

\* Cells a notebook can have
MaxCells == 3

\* `setTimeout(..., 1000)` in ticks: a tick is half a second.
ResetDelay == 2

CellTypes == {"code", "markdown"}

\* The keys of keydown events; "x" stands for every key without a shortcut.
Keys == {"Escape", "Enter", "ArrowUp", "ArrowDown", "a", "b", "m", "y", "d", "x"}

\* The fields of the view the cell operations work on
Notebook ==
    [cells |-> notebookCells, states |-> cellStates, elements |-> cellElements,
     active |-> activeCellId, mode |-> cellMode,
     source |-> source, executionState |-> executionState, codeInput |-> codeInput,
     outputDiv |-> outputDiv, running |-> cellRunning]

\* The texts of a cell: none, a line break, code
Sources == {"", "\n", "x"}

\* `String.prototype.trim()`
Trim(text) == IF text \in {"", "\n"} THEN "" ELSE text

\* The value of a textarea whose start tag is followed by the text: a line break
\* directly after the start tag is not part of the value.
TextareaValue(text) == IF text = "\n" THEN "" ELSE text

\* A map without a key, and with a key set
Without(map, key) == [k \in DOMAIN map \ {key} |-> map[k]]
WithKey(map, key, value) ==
    [k \in DOMAIN map \cup {key} |-> IF k = key THEN value ELSE map[k]]

\* _syncCellEditsToState(): the source of every code cell whose element has a
\* textarea becomes the value of the textarea; a markdown cell gets back the
\* source its element was rendered with (data-raw-source, encoded and decoded).
syncCellEditsToState(nb) ==
    [nb EXCEPT !.source =
        [id \in DOMAIN nb.source |->
            IF /\ \E i \in 1..Len(nb.cells) :
                      nb.cells[i].id = id /\ nb.cells[i].cell_type = "code"
               /\ id \in DOMAIN nb.codeInput
            THEN nb.codeInput[id]
            ELSE nb.source[id]]]

\* `cells.findIndex(c => c.id === cellId)`, counted from 0; -1 for none
findIndex(cells, cellId) ==
    IF \E i \in 1..Len(cells) : cells[i].id = cellId
    THEN (CHOOSE i \in 1..Len(cells) :
              cells[i].id = cellId /\ \A j \in 1..(i - 1) : cells[j].id # cellId) - 1
    ELSE -1

\* `Array.prototype.splice(index, 0, item)`, index counted from 0
SpliceIn(seq, index, item) ==
    SubSeq(seq, 1, index) \o <<item>> \o SubSeq(seq, index + 1, Len(seq))

\* `Array.prototype.splice(index, 1)`, index counted from 0
SpliceOut(seq, index) == SubSeq(seq, 1, index) \o SubSeq(seq, index + 2, Len(seq))

\* The element _renderCell gives for a cell: it has no mode class.
CellElement(cell) == [id |-> cell.id, type |-> cell.cell_type, mark |-> "none"]

\* The mode class of a mode
ModeClass(mode) == IF mode = "command" THEN "cell-selected" ELSE "cell-editing"

\* A variant that leaves the mode classes of the other cells in place.
setActiveCell_KeepingClasses(nb, cellId, mode) ==
    [nb EXCEPT !.elements =
                  [i \in 1..Len(nb.elements) |->
                      IF /\ cellId # NoCell
                         /\ mode # "null"
                         /\ i = findIndex(nb.elements, cellId) + 1
                      THEN [nb.elements[i] EXCEPT !.mark = ModeClass(mode)]
                      ELSE nb.elements[i]],
               !.active = cellId,
               !.mode = mode]

\* _setActiveCell(cellId, mode): the mode classes are removed from every cell
\* element; the first element with the id gets the class of the mode.
setActiveCell(nb, cellId, mode) ==
    [nb EXCEPT !.elements =
                  [i \in 1..Len(nb.elements) |->
                      [nb.elements[i] EXCEPT
                          !.mark = IF /\ cellId # NoCell
                                      /\ mode # "null"
                                      /\ i = findIndex(nb.elements, cellId) + 1
                                   THEN ModeClass(mode)
                                   ELSE "none"]],
               !.active = cellId,
               !.mode = mode]

\* A variant that always appends the new element.
insertCellIntoDOM_AtEnd(nb, cell, index) ==
    [nb EXCEPT !.elements = Append(nb.elements, CellElement(cell))]

\* _insertCellIntoDOM(cell, index): before the cell element at the index, or at
\* the end.
insertCellIntoDOM(nb, cell, index) ==
    [nb EXCEPT !.elements = IF index < Len(nb.elements)
                            THEN SpliceIn(nb.elements, index, CellElement(cell))
                            ELSE Append(nb.elements, CellElement(cell))]

\* The id of a new cell (`cell-${Date.now()}-${Math.random()...}`): one that no
\* cell has.
NewCellId(cells) ==
    CHOOSE n \in 1..(Len(cells) + 1) :
        /\ \A i \in 1..Len(cells) : cells[i].id # n
        /\ \A m \in 1..(n - 1) : \E i \in 1..Len(cells) : cells[i].id = m

\* _addCell from the insert index on
AddCellAt(nb, newCell, insertIndex) ==
    setActiveCell(
        insertCellIntoDOM([nb EXCEPT !.cells = SpliceIn(nb.cells, insertIndex, newCell),
                                     !.states = nb.states \cup {newCell.id},
                                     !.source = WithKey(nb.source, newCell.id, ""),
                                     !.executionState =
                                         WithKey(nb.executionState, newCell.id, "idle"),
                                     !.codeInput =
                                         IF newCell.cell_type = "code"
                                         THEN WithKey(nb.codeInput, newCell.id, "")
                                         ELSE nb.codeInput,
                                     !.outputDiv =
                                         IF newCell.cell_type = "code"
                                         THEN WithKey(nb.outputDiv, newCell.id, "")
                                         ELSE nb.outputDiv],
                          newCell, insertIndex),
        newCell.id, "edit")

\* _addCell(cellType, relativeToCellId, position)
addCell(nb, cellType, relativeToCellId, position) ==
    IF findIndex(nb.cells, relativeToCellId) = -1 THEN syncCellEditsToState(nb)
    ELSE AddCellAt(syncCellEditsToState(nb), [id |-> NewCellId(nb.cells), cell_type |-> cellType],
                   IF position = "above" THEN findIndex(nb.cells, relativeToCellId)
                   ELSE findIndex(nb.cells, relativeToCellId) + 1)

\* _selectAdjacentCell from the index of the active cell on
SelectFrom(nb, direction, currentIndex) ==
    IF direction = "up" /\ currentIndex > 0
    THEN setActiveCell(nb, nb.cells[currentIndex].id, "command")
    ELSE IF direction = "down" /\ currentIndex < Len(nb.cells) - 1
    THEN setActiveCell(nb, nb.cells[currentIndex + 2].id, "command")
    ELSE nb

\* _selectAdjacentCell(direction)
selectAdjacentCell(nb, direction) ==
    IF nb.active = NoCell \/ findIndex(nb.cells, nb.active) = -1 THEN nb
    ELSE SelectFrom(nb, direction, findIndex(nb.cells, nb.active))

\* _convertCellType once the cell is found: its type changes, its element, if
\* there is one, is replaced by a new one, and the cell becomes the active cell
\* in command mode.
ConvertAt(nb, cellId, newType, cellIndex, elementIndex) ==
    IF elementIndex = -1
    THEN [nb EXCEPT !.cells[cellIndex + 1].cell_type = newType]
    ELSE setActiveCell([nb EXCEPT !.cells[cellIndex + 1].cell_type = newType,
                                  !.elements[elementIndex + 1] =
                                      CellElement([id |-> cellId, cell_type |-> newType]),
                                  !.codeInput =
                                      IF newType = "code"
                                      THEN WithKey(nb.codeInput, cellId,
                                                   TextareaValue(nb.source[cellId]))
                                      ELSE Without(nb.codeInput, cellId),
                                  !.outputDiv =
                                      IF newType = "code"
                                      THEN WithKey(nb.outputDiv, cellId, "")
                                      ELSE Without(nb.outputDiv, cellId),
                                  !.running = nb.running \ {cellId}],
                       cellId, "command")

\* _convertCellType(cellId, newType)
convertCellType(nb, cellId, newType) ==
    IF findIndex(nb.cells, cellId) = -1 THEN syncCellEditsToState(nb)
    ELSE IF nb.cells[findIndex(nb.cells, cellId) + 1].cell_type = newType
    THEN syncCellEditsToState(nb)
    ELSE ConvertAt(syncCellEditsToState(nb), cellId, newType, findIndex(nb.cells, cellId),
                   findIndex(nb.elements, cellId))

\* A variant that selects the previous cell when there is one.
NextCellId_PreviousFirst(cells, cellIndex) ==
    IF cellIndex > 0 THEN cells[cellIndex].id
    ELSE IF cellIndex < Len(cells) - 1 THEN cells[cellIndex + 2].id
    ELSE NoCell

\* The cell _deleteCell selects: the next one, else the previous one
NextCellId(cells, cellIndex) ==
    IF cellIndex < Len(cells) - 1 THEN cells[cellIndex + 2].id
    ELSE IF cellIndex > 0 THEN cells[cellIndex].id
    ELSE NoCell

\* The removals of _deleteCell: from the cells, the cell states and the document
RemoveCell(nb, cellId, cellIndex, elementIndex) ==
    [nb EXCEPT !.cells = SpliceOut(nb.cells, cellIndex),
               !.states = nb.states \ {cellId},
               !.source = Without(nb.source, cellId),
               !.executionState = Without(nb.executionState, cellId),
               !.elements = IF elementIndex = -1 THEN nb.elements
                            ELSE SpliceOut(nb.elements, elementIndex),
               !.codeInput = IF elementIndex = -1 THEN nb.codeInput
                             ELSE Without(nb.codeInput, cellId),
               !.outputDiv = IF elementIndex = -1 THEN nb.outputDiv
                             ELSE Without(nb.outputDiv, cellId),
               !.running = IF elementIndex = -1 THEN nb.running
                           ELSE nb.running \ {cellId}]

\* _deleteCell once the cell is found
DeleteAt(nb, cellId, cellIndex, nextCellId) ==
    IF nextCellId = NoCell
    THEN RemoveCell(nb, cellId, cellIndex, findIndex(nb.elements, cellId))
    ELSE setActiveCell(RemoveCell(nb, cellId, cellIndex, findIndex(nb.elements, cellId)),
                       nextCellId, "command")

\* _deleteCell(cellId)
deleteCell(nb, cellId) ==
    IF Len(nb.cells) <= 1 THEN nb
    ELSE IF findIndex(nb.cells, cellId) = -1 THEN syncCellEditsToState(nb)
    ELSE DeleteAt(syncCellEditsToState(nb), cellId, findIndex(nb.cells, cellId),
                  NextCellId(nb.cells, findIndex(nb.cells, cellId)))

\* `textarea?.value || state.source`: the value of the textarea of the cell
\* element, or the source of the state when there is no textarea or it is empty
CodeOf(nb, cellId) ==
    IF cellId \in DOMAIN nb.codeInput /\ nb.codeInput[cellId] # ""
    THEN nb.codeInput[cellId]
    ELSE nb.source[cellId]

\* A variant without the return for an element that carries cell-running.
Executes_WhileRunning(nb, cellId) ==
    /\ cellId \in DOMAIN nb.source
    /\ findIndex(nb.elements, cellId) # -1
    /\ cellId \in DOMAIN nb.outputDiv
    /\ Trim(CodeOf(nb, cellId)) # ""

\* _executeCell goes past its early returns: the cell has a state and an
\* element, the element does not carry cell-running and has an output div, and
\* the code is not blank.
Executes(nb, cellId) ==
    /\ cellId \in DOMAIN nb.source
    /\ findIndex(nb.elements, cellId) # -1
    /\ cellId \notin nb.running
    /\ cellId \in DOMAIN nb.outputDiv
    /\ Trim(CodeOf(nb, cellId)) # ""

\* _executeCell up to the dispatch: the output is replaced by the streaming
\* indicator, the state is running and the element carries cell-running.
Started(nb, cellId) ==
    [nb EXCEPT !.executionState[cellId] = "running",
               !.running = nb.running \cup {cellId},
               !.outputDiv[cellId] = "streaming"]

\* The catch block of _executeCell
Failed(nb, cellId) ==
    [nb EXCEPT !.executionState[cellId] = "error",
               !.running = nb.running \ {cellId},
               !.outputDiv[cellId] = "error"]

\* _executeCell(cellId); thrown: the dispatch of the event throws.
executeCell(nb, cellId, thrown) ==
    IF ~Executes(nb, cellId) THEN nb
    ELSE IF ~thrown THEN Started(nb, cellId)
    ELSE Failed(Started(nb, cellId), cellId)

\* The calls of dispatchEvent of _executeCell that returned: one on the window
\* of the iframe and one on the window of the reader
Dispatches(nb, cellId, thrown) ==
    IF ~Executes(nb, cellId) \/ thrown THEN 0 ELSE 2

\* The code of a cell as it is shown: the value of its textarea, or its source
\* when its element has none
Blank(nb, cellId) ==
    IF cellId \in DOMAIN nb.codeInput THEN Trim(nb.codeInput[cellId]) = ""
    ELSE cellId \in DOMAIN nb.source => Trim(nb.source[cellId]) = ""

\* The record of a call of _executeCell that took `before` to `after`;
\* blankSeen: this call or one before it was for a cell with blank code whose
\* element did not carry cell-running.
RunRecord(before, after, cellId, thrown) ==
    [called |-> TRUE,
     marked |-> cellId \in before.running,
     blank |-> Blank(before, cellId),
     dispatches |-> Dispatches(before, cellId, thrown),
     kept |-> /\ after.executionState = before.executionState
              /\ after.outputDiv = before.outputDiv,
     blankSeen |-> \/ lastRun.blankSeen
                   \/ Blank(before, cellId) /\ cellId \notin before.running]

\* The keydown listener takes its command mode branch.
InCommandBranch(isEditing) == ~isEditing /\ cellMode = "command" /\ activeCellId # NoCell

\* The cells after the keydown listener; `count` is _deleteKeyCount after the
\* increment of a 'd'.
AfterKeyDown(nb, key, isEditing, count) ==
    IF isEditing /\ nb.mode = "edit"
    THEN IF key = "Escape" /\ nb.active # NoCell
         THEN setActiveCell(nb, nb.active, "command")
         ELSE nb
    ELSE IF ~InCommandBranch(isEditing) THEN nb
    ELSE CASE key = "Enter" -> setActiveCell(nb, nb.active, "edit")
           [] key = "ArrowUp" -> selectAdjacentCell(nb, "up")
           [] key = "ArrowDown" -> selectAdjacentCell(nb, "down")
           [] key = "a" -> addCell(nb, "code", nb.active, "above")
           [] key = "b" -> addCell(nb, "code", nb.active, "below")
           [] key = "m" -> convertCellType(nb, nb.active, "markdown")
           [] key = "y" -> convertCellType(nb, nb.active, "code")
           [] key = "d" /\ count >= 2 -> deleteCell(nb, nb.active)
           [] OTHER -> nb

\* The fields of the view after a cell operation
SetNotebook(nb) ==
    /\ notebookCells' = nb.cells
    /\ cellStates' = nb.states
    /\ cellElements' = nb.elements
    /\ activeCellId' = nb.active
    /\ cellMode' = nb.mode
    /\ source' = nb.source
    /\ executionState' = nb.executionState
    /\ codeInput' = nb.codeInput
    /\ outputDiv' = nb.outputDiv
    /\ cellRunning' = nb.running

\* What a keydown event of the command mode branch is for the record.  A 'd' is
\* the second of a pair when the keydown before it was a 'd' that was not itself
\* the second of a pair, less than a second ago; `gap` tells what the keydown
\* before it was: none, another key, or a 'd' less than, exactly or more than a
\* second ago.  The shortcut keys other than a, b and d are recorded as
\* "shortcut".
KeyRecord(key, deleted) ==
    IF key = "d"
    THEN [key |-> "d", age |-> 0,
          first |-> ~(lastKey.key = "d" /\ lastKey.first /\ lastKey.age < ResetDelay),
          gap |-> IF lastKey.key = "none" THEN "none"
                  ELSE IF lastKey.key # "d" THEN "other"
                  ELSE IF lastKey.age < ResetDelay THEN "close"
                  ELSE IF lastKey.age = ResetDelay THEN "exact"
                  ELSE "late",
          deleted |-> deleted,
          several |-> Len(notebookCells) >= 2]
    ELSE [NoKey EXCEPT !.key = IF key \in {"a", "b", "x"} THEN key ELSE "shortcut"]

\* The keydown listener (other than Tab and the run shortcuts); isEditing: the
\* target is an editable element.
KeyDown(key, isEditing) ==
    /\ (InCommandBranch(isEditing) /\ key \in {"a", "b"}) => Len(notebookCells) < MaxCells
    /\ SetNotebook(AfterKeyDown(Notebook, key, isEditing, deleteKeyCount + 1))
    /\ IF InCommandBranch(isEditing) /\ key = "d"
       THEN /\ deleteKeyCount' = IF deleteKeyCount + 1 >= 2 THEN 0 ELSE deleteKeyCount + 1
            /\ resetTimers' = resetTimers \cup {ResetDelay}
       ELSE IF InCommandBranch(isEditing) /\ key = "x"
       THEN /\ deleteKeyCount' = 0
            /\ UNCHANGED resetTimers
       ELSE UNCHANGED <<deleteKeyCount, resetTimers>>
    /\ lastKey' = IF InCommandBranch(isEditing)
                  THEN KeyRecord(key, Len(notebookCells') < Len(notebookCells))
                  ELSE lastKey
    /\ UNCHANGED <<selectTimers, lastRun,
                   selVars, findVars, focusVars, gestureVars, sortVars, renderVars>>

\* The callback of `setTimeout(() => { this._deleteKeyCount = 0; }, 1000)`, when
\* the timer has no tick left
ResetDeleteKeyCount ==
    /\ 0 \in resetTimers
    /\ deleteKeyCount' = 0
    /\ resetTimers' = resetTimers \ {0}
    /\ UNCHANGED <<notebookCells, cellStates, cellElements, activeCellId, cellMode,
                   lastKey, runVars,
                   selVars, findVars, focusVars, gestureVars, sortVars, renderVars>>

\* Half a second passes; the timers that were due have run, the timers of
\* Shift+Enter (a tenth of a second) among them.  The age of the last
\* 'd' is counted up to one tick more than a second.
Tick ==
    /\ 0 \notin resetTimers
    /\ selectTimers = 0
    /\ resetTimers' = {t - 1 : t \in resetTimers}
    /\ lastKey' = IF lastKey.key = "d" /\ lastKey.age <= ResetDelay
                  THEN [lastKey EXCEPT !.age = lastKey.age + 1]
                  ELSE lastKey
    /\ UNCHANGED <<notebookCells, cellStates, cellElements, activeCellId, cellMode,
                   deleteKeyCount, runVars,
                   selVars, findVars, focusVars, gestureVars, sortVars, renderVars>>

\* The click listener for a click on a cell outside its editable element
ClickCell(i) ==
    /\ i \in 1..Len(cellElements)
    /\ SetNotebook(setActiveCell(Notebook, cellElements[i].id, "command"))
    /\ UNCHANGED <<deleteKeyCount, resetTimers, lastKey, selectTimers, lastRun,
                   selVars, findVars, focusVars, gestureVars, sortVars, renderVars>>

\* The focus listener for the editable element of a cell
FocusCell(i) ==
    /\ i \in 1..Len(cellElements)
    /\ SetNotebook(setActiveCell(Notebook, cellElements[i].id, "edit"))
    /\ UNCHANGED <<deleteKeyCount, resetTimers, lastKey, selectTimers, lastRun,
                   selVars, findVars, focusVars, gestureVars, sortVars, renderVars>>

\* The data-cell-ids of the code cell elements
CodeIds(elements) ==
    {elements[i].id : i \in {j \in 1..Len(elements) : elements[j].type = "code"}}

\* The notebooks that are opened: cells with distinct ids; under SpecNotebook
\* they have no code and no outputs
InitialCells ==
    UNION {[1..n -> CellTypes] : n \in 1..2}

NotebookInit ==
    /\ view = "notebook"
    /\ doc = TestDocument
    /\ focusEnabled = FALSE
    /\ range = NullRange
    /\ selector = NullSel
    /\ outcome = NoOutcome
    /\ pc = "notebook"
    /\ edits = 0
    /\ FindIdle
    /\ FocusIdle
    /\ GestureIdle
    /\ SortIdle
    /\ RenderIdle
    /\ \E types \in InitialCells :
          /\ notebookCells = [i \in 1..Len(types) |-> [id |-> i, cell_type |-> types[i]]]
          /\ cellStates = 1..Len(types)
          /\ cellElements = [i \in 1..Len(types) |->
                                CellElement([id |-> i, cell_type |-> types[i]])]
    /\ activeCellId = NoCell
    /\ cellMode = "null"
    /\ deleteKeyCount = 0
    /\ resetTimers = {}
    /\ lastKey = NoKey
    /\ source = [id \in cellStates |-> ""]
    /\ executionState = [id \in cellStates |-> "idle"]
    /\ codeInput = [id \in CodeIds(cellElements) |-> ""]
    /\ outputDiv = [id \in CodeIds(cellElements) |-> ""]
    /\ cellRunning = {}
    /\ selectTimers = 0
    /\ lastRun = NoRun

NotebookNext ==
    \/ \E key \in Keys, isEditing \in BOOLEAN : KeyDown(key, isEditing)
    \/ ResetDeleteKeyCount
    \/ Tick
    \/ \E i \in 1..MaxCells : ClickCell(i)
    \/ \E i \in 1..MaxCells : FocusCell(i)

SpecNotebook == NotebookInit /\ [][NotebookNext]_vars

-----------------------------------------------------------------------------
(* Running cells: NotebookView._executeCell and what calls it *)

\* Pending timers of Shift+Enter explored
MaxSelectTimers == 1

\* The keys that run the active cell
RunKeys == {"Shift+Enter", "Ctrl+Enter"}

\* The click listener for a click on the Run button of a code cell
RunClick(i, thrown) ==
    /\ i \in 1..Len(cellElements)
    /\ cellElements[i].type = "code"
    /\ SetNotebook(executeCell(Notebook, cellElements[i].id, thrown))
    /\ lastRun' = RunRecord(Notebook, executeCell(Notebook, cellElements[i].id, thrown),
                            cellElements[i].id, thrown)
    /\ UNCHANGED <<deleteKeyCount, resetTimers, lastKey, selectTimers,
                   selVars, findVars, focusVars, gestureVars, sortVars, renderVars>>

\* The keydown listener for Shift+Enter and Ctrl/Cmd+Enter: in edit mode the
\* active cell is run, and Shift+Enter sets a timer that selects the next cell;
\* outside edit mode the key is handled as Enter.
RunKeyDown(key, isEditing, thrown) ==
    IF isEditing /\ cellMode = "edit"
    THEN /\ (key = "Shift+Enter" /\ activeCellId # NoCell) =>
                selectTimers < MaxSelectTimers
         /\ IF activeCellId # NoCell
            THEN /\ SetNotebook(executeCell(Notebook, activeCellId, thrown))
                 /\ lastRun' = RunRecord(Notebook,
                                         executeCell(Notebook, activeCellId, thrown),
                                         activeCellId, thrown)
                 /\ selectTimers' = IF key = "Shift+Enter" THEN selectTimers + 1
                                    ELSE selectTimers
            ELSE UNCHANGED <<notebookCells, cellStates, cellElements, activeCellId,
                             cellMode, runVars>>
         /\ UNCHANGED <<deleteKeyCount, resetTimers, lastKey,
                        selVars, findVars, focusVars, gestureVars, sortVars, renderVars>>
    ELSE KeyDown("Enter", isEditing)

\* The callback of `setTimeout(() => this._selectAdjacentCell('down'), 100)`
SelectAfterRun ==
    /\ selectTimers > 0
    /\ SetNotebook(selectAdjacentCell(Notebook, "down"))
    /\ selectTimers' = selectTimers - 1
    /\ UNCHANGED <<deleteKeyCount, resetTimers, lastKey, lastRun,
                   selVars, findVars, focusVars, gestureVars, sortVars, renderVars>>

\* The input listener for the textarea of a code cell: the source of the state
\* of the cell becomes the value of the textarea.
Input(i, text) ==
    /\ i \in 1..Len(cellElements)
    /\ cellElements[i].id \in DOMAIN codeInput
    /\ codeInput' = [codeInput EXCEPT ![cellElements[i].id] = text]
    /\ source' = IF cellElements[i].id \in DOMAIN source
                 THEN [source EXCEPT ![cellElements[i].id] = text]
                 ELSE source
    /\ UNCHANGED <<notebookCells, cellStates, cellElements, activeCellId, cellMode,
                   deleteKeyCount, resetTimers, lastKey,
                   executionState, outputDiv, cellRunning, selectTimers, lastRun,
                   selVars, findVars, focusVars, gestureVars, sortVars, renderVars>>

\* The reader, when the run of a cell is over: it puts the result into the
\* output div and takes cell-running off the element.
ExecutionFinished(i) ==
    /\ i \in 1..Len(cellElements)
    /\ cellElements[i].id \in cellRunning
    /\ cellRunning' = cellRunning \ {cellElements[i].id}
    /\ outputDiv' = [outputDiv EXCEPT ![cellElements[i].id] = "result"]
    /\ UNCHANGED <<notebookCells, cellStates, cellElements, activeCellId, cellMode,
                   deleteKeyCount, resetTimers, lastKey,
                   source, executionState, codeInput, selectTimers, lastRun,
                   selVars, findVars, focusVars, gestureVars, sortVars, renderVars>>

\* The shortcut keys pressed between runs
ExecuteKeys == {"Escape", "m", "y"}

ExecuteInit ==
    /\ view = "notebook"
    /\ doc = TestDocument
    /\ focusEnabled = FALSE
    /\ range = NullRange
    /\ selector = NullSel
    /\ outcome = NoOutcome
    /\ pc = "notebook"
    /\ edits = 0
    /\ FindIdle
    /\ FocusIdle
    /\ GestureIdle
    /\ SortIdle
    /\ RenderIdle
    /\ \E types \in InitialCells :
          /\ notebookCells = [i \in 1..Len(types) |-> [id |-> i, cell_type |-> types[i]]]
          /\ cellStates = 1..Len(types)
          /\ cellElements = [i \in 1..Len(types) |->
                                CellElement([id |-> i, cell_type |-> types[i]])]
    /\ activeCellId = NoCell
    /\ cellMode = "null"
    /\ deleteKeyCount = 0
    /\ resetTimers = {}
    /\ lastKey = NoKey
    /\ source \in [cellStates -> Sources]
    /\ executionState = [id \in cellStates |-> "idle"]
    /\ codeInput = [id \in CodeIds(cellElements) |-> TextareaValue(source[id])]
    /\ outputDiv = [id \in CodeIds(cellElements) |-> "outputs"]
    /\ cellRunning = {}
    /\ selectTimers = 0
    /\ lastRun = NoRun

ExecuteNext ==
    \/ \E i \in 1..MaxCells, thrown \in BOOLEAN : RunClick(i, thrown)
    \/ \E key \in RunKeys, isEditing \in BOOLEAN, thrown \in BOOLEAN :
          RunKeyDown(key, isEditing, thrown)
    \/ SelectAfterRun
    \/ \E i \in 1..MaxCells, text \in Sources : Input(i, text)
    \/ \E i \in 1..MaxCells : ExecutionFinished(i)
    \/ \E key \in ExecuteKeys, isEditing \in BOOLEAN : KeyDown(key, isEditing)
    \/ \E i \in 1..MaxCells : ClickCell(i)
    \/ \E i \in 1..MaxCells : FocusCell(i)

SpecExecute == ExecuteInit /\ [][ExecuteNext]_vars

-----------------------------------------------------------------------------
(* Claims about the notebook cells, checked under SpecNotebook *)

\* C26: in command mode the second of two consecutive 'd' presses less than a
\* second apart deletes the active cell of a notebook with several cells,
\* whatever was pressed before; a 'd' with no key before it, or more than a
\* second after the 'd' before it, deletes nothing.
C26_SecondDeleteKeyDeletes ==
    lastKey.key = "d" =>
        /\ (lastKey.gap = "close" /\ ~lastKey.first /\ lastKey.several) => lastKey.deleted
        /\ lastKey.gap \in {"none", "late"} => ~lastKey.deleted

\* C27: a 'd' that follows a keydown of another key, a shortcut key or not, does
\* not delete a cell.
C27_OtherKeyResetsDeleteCount ==
    (lastKey.key = "d" /\ lastKey.gap = "other") => ~lastKey.deleted

\* The ids of the cells or of the cell elements, in order
CellIds(cells) == [i \in 1..Len(cells) |-> cells[i].id]

\* C28: a notebook keeps at least one cell; when a cell is deleted the notebook
\* had several, and the active cell becomes the one that followed the deleted
\* cell, or else the one before it, in command mode.
C28_DeleteKeepsOneCellAndSelectsNeighbour ==
    /\ [](Len(notebookCells) >= 1)
    /\ [][Len(notebookCells') < Len(notebookCells) =>
            /\ Len(notebookCells) >= 2
            /\ \E i \in 1..Len(notebookCells) :
                  /\ notebookCells' = SpliceOut(notebookCells, i - 1)
                  /\ notebookCells[i].id \notin {notebookCells'[j].id :
                                                   j \in 1..Len(notebookCells')}
                  /\ activeCellId' = IF i < Len(notebookCells)
                                     THEN notebookCells[i + 1].id
                                     ELSE notebookCells[i - 1].id
            /\ cellMode' = "command"]_vars

\* The last cell of a notebook has been deleted and the one before it is the
\* active cell.
C28_Witness ==
    /\ lastKey.key = "d"
    /\ lastKey.deleted
    /\ Len(notebookCells) = 2
    /\ activeCellId = notebookCells[2].id
    /\ cellMode = "command"
    /\ cellElements[2].mark = "cell-selected"

\* C29: the keys of _cellStates are the ids of the cells and the cell elements
\* are in the order of the cells; a new cell comes directly above the active cell
\* for 'a' and directly below it for 'b', the other cells stay as they are, and
\* the new cell is the active cell, in edit mode.
C29_CellsStatesAndElementsAgree ==
    /\ [](/\ cellStates = {notebookCells[i].id : i \in 1..Len(notebookCells)}
          /\ CellIds(cellElements) = CellIds(notebookCells))
    /\ [][Len(notebookCells') > Len(notebookCells) =>
            /\ lastKey'.key \in {"a", "b"}
            /\ \E i \in 1..Len(notebookCells) :
                  /\ notebookCells[i].id = activeCellId
                  /\ LET at == IF lastKey'.key = "a" THEN i ELSE i + 1 IN
                     /\ notebookCells' = SpliceIn(notebookCells, at - 1, notebookCells'[at])
                     /\ notebookCells'[at].id \notin {notebookCells[j].id :
                                                        j \in 1..Len(notebookCells)}
                     /\ activeCellId' = notebookCells'[at].id
            /\ cellMode' = "edit"]_vars

\* A cell has been added above the first cell of a notebook that had two.
C29_Witness ==
    /\ lastKey.key = "a"
    /\ Len(notebookCells) = 3
    /\ activeCellId = notebookCells[1].id
    /\ cellElements[1].id = activeCellId
    /\ cellMode = "edit"

\* The cell elements that carry cell-selected or cell-editing
Marked == {i \in 1..Len(cellElements) : cellElements[i].mark # "none"}

\* C30: at most one cell element carries cell-selected or cell-editing; it is the
\* element of the active cell, and the class is the one of the mode.
C30_OneMarkedCell ==
    /\ Cardinality(Marked) <= 1
    /\ \A i \in Marked :
          /\ cellElements[i].id = activeCellId
          /\ cellMode # "null"
          /\ cellElements[i].mark = ModeClass(cellMode)

\* The active cell was another one before: the second of three cells is being
\* edited after the first was selected.
C30_Witness ==
    /\ Len(cellElements) = 3
    /\ Marked = {2}
    /\ cellElements[2].mark = "cell-editing"
    /\ lastKey.key = "shortcut"

-----------------------------------------------------------------------------
(* Claims about running cells, checked under SpecExecute *)

\* C31: a call of _executeCell for a cell whose element carries cell-running
\* dispatches no notebook-execute-code event, whether it comes from the Run
\* button, Shift+Enter or Ctrl/Cmd+Enter; a call for a cell whose code is empty
\* or blank dispatches no event and leaves the execution states and the outputs
\* as they were.
C31_RunningOrBlankCellDispatchesNothing ==
    lastRun.called =>
        /\ lastRun.marked => lastRun.dispatches = 0
        /\ lastRun.blank => (lastRun.dispatches = 0 /\ lastRun.kept)

\* A cell with code is run again while its element carries cell-running, after
\* a cell with blank code was run.
C31_Witness ==
    /\ lastRun.called
    /\ lastRun.marked
    /\ ~lastRun.blank
    /\ lastRun.dispatches = 0
    /\ lastRun.blankSeen
    /\ cellRunning # {}

====
